---- MODULE Spec2Model ----
(***************************************************************************)
(* A model of package deep (github.com/go-test/deep), deep.go.             *)
(*                                                                         *)
(* deep.Equal(a, b) walks two Go values through reflection and returns a   *)
(* list of differences.  The model keeps the comparison context (cmp.diff, *)
(* cmp.buff, cmp.seen, cmp.floatFormat), the package configuration         *)
(* variables, and the call stack of cmp.equals: one frame per active call, *)
(* holding its two reflect.Values, its level and the place it has reached. *)
(***************************************************************************)
EXTENDS Integers, Sequences, FiniteSets, TLC

(***************************************************************************)
(* Bounds of the model.                                                    *)
(***************************************************************************)
\* MaxDiff is drawn from 1..MaxDiffBound.
MaxDiffBound == 3
\* MaxDepth is drawn from 0..MaxDepthBound.
MaxDepthBound == 2
\* The goroutine stack holds StackLimit frames of equals; one more is the
\* runtime's fatal "stack overflow".
StackLimit == 9

(***************************************************************************)
(* reflect.Type.  A type is named by its String() form.                    *)
(*   kind     reflect.Kind                                                 *)
(*   name     Type.Name() ("" for an unnamed type)                         *)
(*   pkg      Type.PkgPath()                                               *)
(*   fields   the struct fields: name, pkgPath ("" when exported), tag     *)
(*   implErr  Type.Implements(errorType)                                   *)
(*   eq       the shape of a method named Equal in the method set:         *)
(*            "none", "ok" (Equal(T) bool-kind), "otherarg", "noret",      *)
(*            "nonbool"                                                    *)
(***************************************************************************)
Ty(kind, name, pkg) ==
    [kind |-> kind, name |-> name, pkg |-> pkg, fields |-> <<>>,
     implErr |-> FALSE, eq |-> << >>]

\* a method Equal with the types of its arguments and of its results; a
\* type without one has eq = << >>
EqualMethod(in, out) == << [in |-> in, out |-> out] >>

Fld(name, pkgPath, tag) == [name |-> name, pkgPath |-> pkgPath, tag |-> tag]

TestPkg == "github.com/go-test/deep_test"

StructTy(name, fields) == [Ty("struct", name, TestPkg) EXCEPT !.fields = fields]

TypeTab ==
       "int"      :> Ty("int", "int", "")
    @@ "int64"    :> Ty("int", "int64", "")
    @@ "uint64"   :> Ty("uint", "uint64", "")
    @@ "string"   :> Ty("string", "string", "")
    @@ "bool"     :> Ty("bool", "bool", "")
    @@ "float64"  :> Ty("float", "float64", "")
    @@ "func()"   :> Ty("func", "", "")
    @@ "chan int" :> Ty("chan", "", "")
    @@ "interface {}" :> Ty("interface", "", "")
    @@ "deep_test.T1" :> Ty("int", "T1", TestPkg)
    @@ "deep_test.T2" :> Ty("int", "T2", TestPkg)
    \* TestStruct: type s struct { id int; Name string; Number int }
    @@ "deep_test.s" :> StructTy("s",
          << Fld("id", TestPkg, ""), Fld("Name", "", ""), Fld("Number", "", "") >>)
    \* TestStructWithTags, reduced to one field of each sort and a nested struct
    @@ "deep_test.tg1" :> StructTy("tg1",
          << Fld("Modified", "", ""), Fld("ModifiedIgnored", "", "-"),
             Fld("modified", TestPkg, ""), Fld("modifiedIgnored", TestPkg, "-") >>)
    @@ "deep_test.tg2" :> StructTy("tg2",
          << Fld("Inline", "", ""), Fld("InlineIgnored", "", "-"),
             Fld("Leaf", "", "") >>)
    \* TestPointer: type T struct { i int }
    @@ "deep_test.T"  :> StructTy("T", << Fld("i", TestPkg, "") >>)
    @@ "*deep_test.T" :> Ty("ptr", "", "")
    @@ "deep_test.pp" :> StructTy("pp", << Fld("X", "", ""), Fld("Y", "", "") >>)
    \* TestRingList, TestOroborous
    @@ "deep_test.ring"  :> StructTy("ring", << Fld("Prev", "", ""), Fld("Next", "", "") >>)
    @@ "*deep_test.ring" :> Ty("ptr", "", "")
    @@ "deep_test.oroborous"  :> StructTy("oroborous", << Fld("Any", "", "") >>)
    @@ "*deep_test.oroborous" :> Ty("ptr", "", "")
    @@ "map[string]interface {}" :> Ty("map", "", "")
    @@ "[]interface {}" :> Ty("slice", "", "")
    @@ "map[string]int" :> Ty("map", "", "")
    @@ "map[string]map[string]int" :> Ty("map", "", "")
    @@ "map[string][]int" :> Ty("map", "", "")
    @@ "map[string]*deep_test.T" :> Ty("map", "", "")
    @@ "[]int"  :> Ty("slice", "", "")
    @@ "[3]int" :> Ty("array", "", "")
    @@ "[2]int" :> Ty("array", "", "")
    \* TestDeepRecursion
    @@ "deep_test.s1" :> StructTy("s1", << Fld("S", "", "") >>)
    @@ "deep_test.s2" :> StructTy("s2", << Fld("S", "", "") >>)
    @@ "deep_test.s3" :> StructTy("s3", << Fld("S", "", "") >>)
    @@ "map[string]deep_test.s3" :> Ty("map", "", "")
    \* package time
    @@ "time.Time" :> [Ty("struct", "Time", "time") EXCEPT
          !.fields = << Fld("wall", "time", ""), Fld("ext", "time", ""),
                        Fld("loc", "time", "") >>,
          !.eq = EqualMethod(<< "time.Time" >>, << "bool" >>)]
    @@ "*time.Location" :> Ty("ptr", "", "")
    @@ "time.Duration"  :> Ty("int", "Duration", "time")
    \* type hiddenTime struct { t time.Time; d time.Duration } (TestTimePrecision's S)
    @@ "deep_test.hiddenTime" :> StructTy("hiddenTime",
          << Fld("t", TestPkg, ""), Fld("d", TestPkg, "") >>)
    @@ "deep_test.sTime" :> StructTy("sTime", << Fld("T", "", ""), Fld("D", "", "") >>)
    \* package errors and TestErrorPrimitiveKind
    @@ "error" :> [Ty("interface", "error", "") EXCEPT !.implErr = TRUE]
    @@ "errors.errorString"  :> [Ty("struct", "errorString", "errors") EXCEPT
          !.fields = << Fld("s", "errors", "") >>]
    @@ "*errors.errorString" :> [Ty("ptr", "", "") EXCEPT !.implErr = TRUE]
    @@ "deep_test.primKindError" :> [Ty("string", "primKindError", TestPkg) EXCEPT
          !.implErr = TRUE]
    @@ "deep_test.tWithError" :> StructTy("tWithError", << Fld("Error", "", "") >>)
    \* type S struct { err error } (TestUnexportedErrorField)
    @@ "deep_test.hiddenErr" :> StructTy("hiddenErr", << Fld("err", TestPkg, "") >>)
    \* TestEqualReturnsNothing, TestEqualReturnsWrongType, TestEqualReturnsBoolKind
    @@ "deep_test.equalReturnsNothing"   :> [Ty("int", "equalReturnsNothing", TestPkg) EXCEPT
          !.eq = EqualMethod(<< "deep_test.equalReturnsWrongType" >>, << >>)]
    @@ "deep_test.equalReturnsWrongType" :> [Ty("int", "equalReturnsWrongType", TestPkg) EXCEPT
          !.eq = EqualMethod(<< "deep_test.equalReturnsWrongType" >>, << "int" >>)]
    @@ "deep_test.equalReturnsBoolKind"  :> [Ty("int", "equalReturnsBoolKind", TestPkg) EXCEPT
          !.eq = EqualMethod(<< "deep_test.equalReturnsBoolKind" >>,
                             << "deep_test.boolKind" >>)]
    @@ "deep_test.boolKind" :> Ty("bool", "boolKind", TestPkg)
    \* TestTypeMismatch: v1.Error and v2.Error, two packages of one name
    @@ "test/v1.Error" :> Ty("struct", "Error", "github.com/go-test/deep/test/v1")
    @@ "test/v2.Error" :> Ty("struct", "Error", "github.com/go-test/deep/test/v2")
    \* a struct with a field of a kind equals does not handle
    @@ "deep_test.withChan" :> StructTy("withChan", << Fld("C", "", ""), Fld("N", "", "") >>)
    \* TestTime: type Time15 struct { time.Time }, with the Equal of time.Time
    @@ "deep_test.Time15" :> [StructTy("Time15", << Fld("Time", "", "") >>) EXCEPT
          !.eq = EqualMethod(<< "time.Time" >>, << "bool" >>)]

Kind(t) == TypeTab[t].kind

\* Type.String(): the package's name and the type's name; the packages of
\* v1.Error and v2.Error are both named test
TypeString(t) == IF t \in {"test/v1.Error", "test/v2.Error"} THEN "test.Error" ELSE t

(***************************************************************************)
(* reflect.Value.  One record shape for every kind:                        *)
(*   typ   the type ("" for the invalid Value / an untyped nil)            *)
(*   val   the number of a bool (0, 1), int, uint or float                 *)
(*   str   the text of a string; "NaN" for a float that is not a number    *)
(*   kids  the fields of a struct, the elements of an array, the dynamic   *)
(*         value of a non-nil interface (one element)                      *)
(*   addr  what a pointer, map, slice or func refers to ("" when nil)      *)
(*   off, len  the window of a slice in its backing array                  *)
(* Mem maps an address to what is stored there: the pointee of a pointer,  *)
(* the backing array of a slice, or the keys (in sorted order) and values  *)
(* of a map.                                                               *)
(***************************************************************************)
V(typ) ==
    [typ |-> typ, val |-> 0, str |-> "", kids |-> <<>>, keys |-> <<>>,
     addr |-> "", off |-> 0, len |-> 0]

UntypedNil == V("")

IntV(n)      == [V("int") EXCEPT !.val = n]
StrV(s)      == [V("string") EXCEPT !.str = s]
NamedV(t, n) == [V(t) EXCEPT !.val = n]
StructV(t, kids) == [V(t) EXCEPT !.kids = kids]
ArrayV(t, kids)  == [V(t) EXCEPT !.kids = kids]
RefV(t, addr)    == [V(t) EXCEPT !.addr = addr]
IfaceV(t, dyn)   == [V(t) EXCEPT !.kids = << dyn >>]
SliceV(t, addr, off, len) == [V(t) EXCEPT !.addr = addr, !.off = off, !.len = len]
MapObj(keys, vals) == [V("") EXCEPT !.keys = keys, !.kids = vals]
FloatV(n)    == [V("float64") EXCEPT !.val = n]
NaNV        == [V("float64") EXCEPT !.str = "NaN"]

\* time.Time{wall, ext, loc}: ext seconds and wall nanoseconds, UTC (loc = nil)
TimeV(ext, wall) ==
    StructV("time.Time", << NamedV("uint64", wall), NamedV("int64", ext),
                           RefV("*time.Location", "") >>)

Ints(ns) == [i \in 1..Len(ns) |-> IntV(ns[i])]

S3(n) == StructV("deep_test.s3",
            << StructV("deep_test.s2", << StructV("deep_test.s1", << IntV(n) >>) >>) >>)

Ring(prev, next) ==
    StructV("deep_test.ring",
           << RefV("*deep_test.ring", prev), RefV("*deep_test.ring", next) >>)

Mem ==
       "t1"  :> StructV("deep_test.T", << IntV(1) >>)
    @@ "t1b" :> StructV("deep_test.T", << IntV(1) >>)
    @@ "t2"  :> StructV("deep_test.T", << IntV(2) >>)
    \* rings of one node (TestRingList) and a ring of two nodes
    @@ "rA"  :> Ring("rA", "rA")
    @@ "rB"  :> Ring("rB", "rB")
    @@ "rC"  :> Ring("rD", "rD")
    @@ "rD"  :> Ring("rC", "rC")
    @@ "rE"  :> Ring("", "")
    \* o.Any = o (TestOroborous)
    @@ "oA"  :> StructV("deep_test.oroborous",
                       << IfaceV("interface {}", RefV("*deep_test.oroborous", "oA")) >>)
    @@ "oB"  :> StructV("deep_test.oroborous",
                       << IfaceV("interface {}", RefV("*deep_test.oroborous", "oB")) >>)
    \* m["self"] = m
    @@ "mA"  :> MapObj(<< "self" >>,
                       << IfaceV("interface {}", RefV("map[string]interface {}", "mA")) >>)
    @@ "mB"  :> MapObj(<< "self" >>,
                       << IfaceV("interface {}", RefV("map[string]interface {}", "mB")) >>)
    \* l[0] = l
    @@ "lA"  :> ArrayV("", << IfaceV("interface {}", SliceV("[]interface {}", "lA", 0, 1)) >>)
    @@ "lB"  :> ArrayV("", << IfaceV("interface {}", SliceV("[]interface {}", "lB", 0, 1)) >>)
    \* TestMap
    @@ "m1"  :> MapObj(<< "bar", "foo" >>, Ints(<< 2, 1 >>))
    @@ "m2"  :> MapObj(<< "bar", "foo" >>, Ints(<< 22, 111 >>))
    @@ "m3"  :> MapObj(<< "bar" >>, Ints(<< 2 >>))
    @@ "m4"  :> MapObj(<< >>, << >>)
    @@ "m5"  :> MapObj(<< "baz", "qux" >>, Ints(<< 3, 4 >>))
    \* maps of maps and maps of slices
    @@ "n1"  :> MapObj(<< "x" >>, << RefV("map[string]int", "m1") >>)
    @@ "n2"  :> MapObj(<< "x" >>, << RefV("map[string]int", "m3") >>)
    @@ "n3"  :> MapObj(<< "y" >>, << RefV("map[string]int", "m1") >>)
    @@ "ms1" :> MapObj(<< "k" >>, << SliceV("[]int", "ar1", 0, 3) >>)
    @@ "ms2" :> MapObj(<< "k" >>, << SliceV("[]int", "ar2", 0, 2) >>)
    \* TestSlice, TestSiblingSlices
    @@ "ar1" :> ArrayV("", Ints(<< 1, 2, 3 >>))
    @@ "ar2" :> ArrayV("", Ints(<< 1, 22, 333 >>))
    @@ "ar3" :> ArrayV("", << >>)
    \* TestDeepRecursion
    @@ "d1"  :> MapObj(<< "foo" >>, << S3(42) >>)
    @@ "d2"  :> MapObj(<< "foo" >>, << S3(100) >>)
    \* slices of interfaces that hold ints and strings
    @@ "li1" :> ArrayV("", << IfaceV("interface {}", IntV(1)), IfaceV("interface {}", IntV(5)) >>)
    @@ "li2" :> ArrayV("", << IfaceV("interface {}", StrV("a")), IfaceV("interface {}", IntV(6)) >>)
    \* maps of interfaces that hold ints and strings
    @@ "mi1" :> MapObj(<< "a", "b" >>,
                       << IfaceV("interface {}", IntV(1)), IfaceV("interface {}", IntV(5)) >>)
    @@ "mi2" :> MapObj(<< "a", "b" >>,
                       << IfaceV("interface {}", StrV("x")), IfaceV("interface {}", IntV(6)) >>)
    \* maps of pointers, one of them holding one pointer under both keys
    @@ "pm1" :> MapObj(<< "k1", "k2" >>,
                       << RefV("*deep_test.T", "t1"), RefV("*deep_test.T", "t1") >>)
    @@ "pm2" :> MapObj(<< "k1", "k2" >>,
                       << RefV("*deep_test.T", "t1b"), RefV("*deep_test.T", "t2") >>)

    \* errors.New("it broke"), errors.New("it fell apart")
    @@ "e1"  :> StructV("errors.errorString", << StrV("it broke") >>)
    @@ "e1b" :> StructV("errors.errorString", << StrV("it broke") >>)
    @@ "e2"  :> StructV("errors.errorString", << StrV("it fell apart") >>)

(***************************************************************************)
(* Package reflect, as far as equals uses it.                              *)
(***************************************************************************)
IsValid(v) == v.typ # ""

Name(t) == TypeTab[t].name

PkgPath(t) == TypeTab[t].pkg

Implements(t) == TypeTab[t].implErr

NumField(v) == Len(TypeTab[v.typ].fields)

Field(t, i) == TypeTab[t].fields[i + 1]

\* Value.IsNil of a pointer, map, slice or func (no address) or an interface
\* (no dynamic value)
IsNil(v) == IF Kind(v.typ) = "interface" THEN v.kids = << >> ELSE v.addr = ""

\* Value.Elem of a non-nil pointer or interface
Elem(v) == IF Kind(v.typ) = "interface" THEN v.kids[1] ELSE Mem[v.addr]

\* Value.Len of a map or slice
ValLen(v) ==
    IF Kind(v.typ) = "map"
    THEN (IF v.addr = "" THEN 0 ELSE Len(Mem[v.addr].keys))
    ELSE IF Kind(v.typ) = "slice" THEN v.len
    ELSE Len(v.kids)

\* Value.Index(i) of an array or slice
Index(v, i) ==
    IF Kind(v.typ) = "slice" THEN Mem[v.addr].kids[v.off + i + 1] ELSE v.kids[i + 1]

\* Value.MapKeys: the keys, in the map's sorted order
MapKeys(v) == IF v.addr = "" THEN << >> ELSE Mem[v.addr].keys

\* Value.MapIndex(key): the invalid Value when the key is absent
MapIndex(v, key) ==
    IF \E j \in 1..Len(MapKeys(v)) : MapKeys(v)[j] = key
    THEN Mem[v.addr].kids[CHOOSE j \in 1..Len(MapKeys(v)) : MapKeys(v)[j] = key]
    ELSE UntypedNil

\* Value.Pointer: the address of a pointer's target or of a map, and the
\* address of a slice's first element
Pointer(v) == IF Kind(v.typ) = "slice" THEN << v.addr, v.off >> ELSE v.addr

\* The orders in which a range over MapKeys may deliver the keys
KeyOrders(v) ==
    LET ks == MapKeys(v)
    IN  { [i \in 1..Len(ks) |-> ks[p[i]]] : p \in Permutations(1..Len(ks)) }

(***************************************************************************)
(* The methods equals looks up by name: Error, Truncate, Equal.            *)
(***************************************************************************)
\* v.Error() of *errors.errorString, of primKindError, and of an error
\* interface holding one of them
RECURSIVE ErrorString(_)
ErrorString(v) ==
    IF Kind(v.typ) = "interface" THEN ErrorString(v.kids[1])
    ELSE IF Kind(v.typ) = "ptr" THEN Mem[v.addr].kids[1].str
    ELSE v.str

\* time.Time as nanoseconds since the zero time
Instant(v) == v.kids[2].val * 1000000000 + v.kids[1].val

\* v.Truncate(d) of time.Time and time.Duration: down to a multiple of d
Truncate(v, d) ==
    IF v.typ = "time.Time"
    THEN LET t == Instant(v) - (Instant(v) % d)
         IN  TimeV(t \div 1000000000, t % 1000000000)
    ELSE [v EXCEPT !.val = v.val - (v.val % d)]

\* x.Equal(y) for the types whose Equal takes the type itself and returns a
\* bool kind: time.Time compares instants, equalReturnsBoolKind returns true
CallEqual(x, y) ==
    IF x.typ = "time.Time" THEN Instant(x) = Instant(y) ELSE TRUE

(***************************************************************************)
(* Package fmt: the %v form of a value, and the %.Nf form of a float.      *)
(* Floats are decimals of seven fractional digits: val counts 10^-7.       *)
(***************************************************************************)
RECURSIVE Join(_, _)
Join(ss, sep) ==
    IF Len(ss) = 0 THEN ""
    ELSE IF Len(ss) = 1 THEN ss[1]
    ELSE ss[1] \o sep \o Join(Tail(ss), sep)

RECURSIVE Pow10(_)
Pow10(n) == IF n = 0 THEN 1 ELSE 10 * Pow10(n - 1)

RECURSIVE Zeros(_)
Zeros(n) == IF n <= 0 THEN "" ELSE "0" \o Zeros(n - 1)

\* n >= 0 in decimal, at least w digits wide
Digits(n, w) == Zeros(w - Len(ToString(n))) \o ToString(n)

Abs(n) == IF n < 0 THEN 0 - n ELSE n

\* fmt.Sprintf("%.<prec>f", v): rounded to prec decimal places, half to even
FormatFloat(prec, v) ==
    IF v.str \in {"NaN", "+Inf", "-Inf"} THEN v.str
    ELSE LET neg  == v.val < 0 \/ v.str = "-0"
             n    == Abs(v.val)
             unit == Pow10(7 - prec)
             q    == n \div unit
             r    == n % unit
             up   == 2 * r > unit \/ (2 * r = unit /\ q % 2 = 1)
             m    == IF prec >= 7 THEN n ELSE IF up THEN q + 1 ELSE q
             w    == IF prec >= 7 THEN 7 ELSE prec
             ip   == m \div Pow10(w)
             fp   == m % Pow10(w)
         IN  (IF neg THEN "-" ELSE "")
             \o ToString(ip)
             \o (IF prec = 0 THEN ""
                 ELSE "." \o Digits(fp, w) \o Zeros(prec - 7))

\* the shortest decimal that gives the float back (%v)
RECURSIVE TrimZeros(_, _)
TrimZeros(n, w) ==
    IF w = 0 THEN ""
    ELSE IF n % 10 = 0 THEN TrimZeros(n \div 10, w - 1)
    ELSE Digits(n, w)

FloatText(v) ==
    IF v.str \in {"NaN", "+Inf", "-Inf"} THEN v.str
    ELSE LET n  == Abs(v.val)
             fr == TrimZeros(n % Pow10(7), 7)
         IN  (IF v.val < 0 \/ v.str = "-0" THEN "-" ELSE "")
             \o ToString(n \div Pow10(7))
             \o (IF fr = "" THEN "" ELSE "." \o fr)

\* %v of a reflect.Value.  ro: the value was reached through an unexported
\* field, so fmt cannot call its Error or String method.  depth: fmt shows
\* the target of a pointer only at the top (&{...}), an address below.
RECURSIVE Render(_, _, _)
Render(v, ro, depth) ==
    LET k == IF IsValid(v) THEN Kind(v.typ) ELSE "invalid"
        kids(x) == [i \in 1..Len(x) |-> Render(x[i], ro, depth + 1)]
        elems   == [i \in 1..ValLen(v) |-> Render(Index(v, i - 1), ro, depth + 1)]
        pairs   == [i \in 1..ValLen(v) |->
                      MapKeys(v)[i] \o ":" \o Render(Mem[v.addr].kids[i], ro, depth + 1)]
    IN  CASE k = "invalid" -> "<invalid reflect.Value>"
        [] k \in {"ptr", "interface"} /\ IsNil(v) -> "<nil>"
        [] k \in {"func", "chan"} -> IF IsNil(v) THEN "<nil>" ELSE "0x" \o v.addr
        [] Implements(v.typ) /\ ~ro -> ErrorString(v)
        [] v.typ = "time.Time" /\ ~ro ->
              ToString(v.kids[2].val) \o "s+" \o ToString(v.kids[1].val) \o "ns UTC"
        [] v.typ = "time.Duration" /\ ~ro -> ToString(v.val) \o "ns"
        [] k = "bool" -> IF v.val = 1 THEN "true" ELSE "false"
        [] k \in {"int", "uint"} -> ToString(v.val)
        [] k = "string" -> v.str
        [] k = "float" -> FloatText(v)
        [] k = "struct" -> "{" \o Join(kids(v.kids), " ") \o "}"
        [] k \in {"array", "slice"} -> "[" \o Join(elems, " ") \o "]"
        [] k = "map" -> "map[" \o Join(pairs, " ") \o "]"
        [] k = "interface" -> Render(v.kids[1], ro, depth + 1)
        [] k = "ptr" ->
              IF depth = 0 /\ Kind(Mem[v.addr].typ) \in {"struct", "array", "slice", "map"}
              THEN "&" \o Render(Mem[v.addr], ro, 1)
              ELSE "0x" \o v.addr

(***************************************************************************)
(* formatDiff, and the two ways equals emits a diff.                       *)
(***************************************************************************)
formatDiff(prefixes, aval, bval) ==
    IF Len(prefixes) > 0
    THEN Join(prefixes, ".") \o ": " \o aval \o " != " \o bval
    ELSE aval \o " != " \o bval

\* what cmp.saveDiff appends to c.diff
saveDiff(buff, aval, bval) == << formatDiff(buff, aval, bval) >>

\* what cmp.prefixDiff appends to c.diff
prefixDiff(buff, prefix, aval, bval) ==
    << formatDiff(Append(buff, prefix), aval, bval) >>

(***************************************************************************)
(* State.                                                                  *)
(***************************************************************************)
VARIABLES
    a, b,                      \* the arguments of Equal
    MaxDiff, MaxDepth, LogErrors, CompareUnexportedFields, CompareFunctions,
    NilSlicesAreEmpty, NilMapsAreEmpty, TimePrecision, FloatPrecision,
                               \* the package configuration variables
    diff, buff, seen, floatFormat,
                               \* the cmp of the call (floatFormat: its precision)
    stack,                     \* the active calls of equals, innermost last
    pc,                        \* "idle", "running", "done", "overflow"
    logged,                    \* what logError has printed
    prev,                      \* the earlier calls of Equal: arguments and result
    atEntry,                   \* the configuration when Equal was called
    ranged,                    \* the key orders of the call's ranges over maps
    callback                   \* the callback of Compare (src/unnamed/part_000)

config == << MaxDiff, MaxDepth, LogErrors, CompareUnexportedFields, CompareFunctions,
             NilSlicesAreEmpty, NilMapsAreEmpty, TimePrecision, FloatPrecision >>

vars == << a, b, config, diff, buff, seen, floatFormat, stack, pc, logged, prev, atEntry,
          ranged, callback >>

ErrMaxRecursion == "recursed to MaxDepth"
ErrTypeMismatch == "variables are different reflect.Type"
ErrNotHandled   == "cannot compare the reflect.Kind"

\* One call of equals(a, b, level).  aro, bro: the Value came through an
\* unexported field (CanInterface is false).  at: where the call stands;
\* i: its loop index; keys: the keys its range loop runs over; entry: c.buff
\* when it was entered.
Frame(x, y, xro, yro, level, path) ==
    [a |-> x, b |-> y, aro |-> xro, bro |-> yro, level |-> level,
     at |-> "entry", i |-> 0, keys |-> << >>, entry |-> path]

Top == stack[Len(stack)]

\* The outcome of the part of equals before its first loop: the diffs it
\* appends, the errors it logs, the pointers it records, and how it goes on:
\* "ret" (return), "call" (equals on the Elem values, then return), or the
\* loop it enters.
Out(emit, log, sawPtrs, next) ==
    [emit |-> emit, log |-> log, saw |-> sawPtrs, next |-> next]

Ret(emit) == Out(emit, << >>, {}, "ret")

haveSeen(ptrs) == \E p \in ptrs : p \in seen

\* the cap taken for reached one diff early
maxDiffReachedEarly == Len(diff) + 1 >= MaxDiff

\* the cap tested with > where the code has >=
maxDiffReachedLate == Len(diff) > MaxDiff

\* len(c.diff) >= MaxDiff
maxDiffReached == Len(diff) >= MaxDiff

\* the depth tested with >= where the code has >
tooDeepEarly(level) == MaxDepth > 0 /\ level >= MaxDepth

\* MaxDepth > 0 && level > MaxDepth
tooDeep(level) == MaxDepth > 0 /\ level > MaxDepth

\* the types always printed in their default forms
typeDiffShort(aType, bType) == saveDiff(buff, TypeString(aType), TypeString(bType))

\* the type-mismatch diff
typeDiff(aType, bType) ==
    IF Name(aType) = "" \/ Name(aType) # Name(bType)
    THEN saveDiff(buff, TypeString(aType), TypeString(bType))
    ELSE saveDiff(buff, PkgPath(aType) \o "." \o Name(aType),
                        PkgPath(bType) \o "." \o Name(bType))

\* resolve an interface to its concrete value
RECURSIVE Concrete(_)
Concrete(v) == IF Kind(v.typ) = "interface" THEN Concrete(Elem(v)) ELSE v

\* the raw IEEE comparison a.Float() == b.Float()
FloatEq(x, y) ==
    /\ x.str # "NaN" /\ y.str # "NaN"
    /\ x.val = y.val
    /\ (x.str \in {"+Inf", "-Inf"} \/ y.str \in {"+Inf", "-Inf"}) => x.str = y.str

\* the floats compared with != only, without their formatted text
floatDiffersRaw(x, y) == ~FloatEq(x, y)

\* the floats formatted with FloatPrecision as it is when they are compared
floatDiffersLive(x, y) ==
    /\ ~FloatEq(x, y)
    /\ FormatFloat(FloatPrecision, x) # FormatFloat(FloatPrecision, y)

\* case reflect.Float32, reflect.Float64: the two floats differ
floatDiffers(x, y) ==
    /\ ~FloatEq(x, y)
    /\ FormatFloat(floatFormat, x) # FormatFloat(floatFormat, y)

\* a nil container taken for equal to any container when nil counts as empty
nilDiffAnyLen(x, y, xro, yro, areEmpty, nilText) ==
    IF areEmpty THEN << >>
    ELSE (IF ~IsNil(y) THEN saveDiff(buff, nilText, Render(y, yro, 0)) ELSE << >>)
      \o (IF ~IsNil(x) THEN saveDiff(buff, Render(x, xro, 0), nilText) ELSE << >>)

\* if a.IsNil() || b.IsNil() of a map or a slice: with NilMapsAreEmpty or
\* NilSlicesAreEmpty the lengths decide, without it the nil-ness
nilDiff(x, y, xro, yro, areEmpty, nilText) ==
    IF areEmpty
    THEN (IF ValLen(y) # 0 THEN saveDiff(buff, nilText, Render(y, yro, 0)) ELSE << >>)
      \o (IF ValLen(x) # 0 THEN saveDiff(buff, Render(x, xro, 0), nilText) ELSE << >>)
    ELSE (IF ~IsNil(y) THEN saveDiff(buff, nilText, Render(y, yro, 0)) ELSE << >>)
      \o (IF ~IsNil(x) THEN saveDiff(buff, Render(x, xro, 0), nilText) ELSE << >>)

\* the two values of a kind without a case compared by their renderings
notHandledCompared(x, y) ==
    IF Render(x, FALSE, 0) # Render(y, FALSE, 0)
    THEN saveDiff(buff, Render(x, FALSE, 0), Render(y, FALSE, 0))
    ELSE << >>

\* default: what two values of a kind without a case add to the diffs
notHandled(x, y) == << >>

\* the kind switch, as far as it does not loop
equalsKind(f, x, y, xro, yro) ==
    LET kind == Kind(x.typ)
        both == saveDiff(buff, Render(x, xro, 0), Render(y, yro, 0))
    IN  CASE kind = "struct" -> Out(<< >>, << >>, {}, "struct")
        [] kind = "map" ->
              IF IsNil(x) \/ IsNil(y)
              THEN Ret(nilDiff(x, y, xro, yro, NilMapsAreEmpty, "<nil map>"))
              ELSE IF Pointer(x) = Pointer(y) THEN Ret(<< >>)
              ELSE Out(<< >>, << >>, {}, "mapA")
        [] kind = "array" -> Out(<< >>, << >>, {}, "array")
        [] kind = "slice" ->
              IF IsNil(x) \/ IsNil(y)
              THEN Ret(nilDiff(x, y, xro, yro, NilSlicesAreEmpty, "<nil slice>"))
              ELSE Out(<< >>, << >>, {}, "slice")
        [] kind = "float" ->
              IF floatDiffers(x, y) THEN Ret(both) ELSE Ret(<< >>)
        [] kind \in {"bool", "int", "uint"} -> IF x.val # y.val THEN Ret(both) ELSE Ret(<< >>)
        [] kind = "string" -> IF x.str # y.str THEN Ret(both) ELSE Ret(<< >>)
        [] kind = "func" ->
              IF CompareFunctions
              THEN IF IsNil(x) \/ IsNil(y)
                   THEN Ret((IF ~IsNil(x)
                             THEN saveDiff(buff, "<non-nil func>", "<nil func>") ELSE << >>)
                         \o (IF ~IsNil(y)
                             THEN saveDiff(buff, "<nil func>", "<non-nil func>") ELSE << >>))
                   ELSE Ret(saveDiff(buff, "<non-nil func>", "<non-nil func>"))
              ELSE Ret(<< >>)
        [] OTHER -> Out(notHandled(x, y), << ErrNotHandled >>, {}, "ret")

\* the declared type printed, an interface not unwrapped
nilElemDiffDeclared(x, y) ==
       (IF ~IsNil(x) THEN saveDiff(buff, x.typ, "<nil pointer>") ELSE << >>)
    \o (IF ~IsNil(y) THEN saveDiff(buff, "<nil pointer>", y.typ) ELSE << >>)

\* if a.IsNil() || b.IsNil(): the type of the side that is not nil, an
\* interface unwrapped, against <nil pointer>
nilElemDiff(x, y) ==
       (IF ~IsNil(x) THEN saveDiff(buff, TypeString(Concrete(x).typ), "<nil pointer>")
        ELSE << >>)
    \o (IF ~IsNil(y) THEN saveDiff(buff, "<nil pointer>", TypeString(Concrete(y).typ))
        ELSE << >>)

\* Dereference pointers and interfaces
equalsElem(f, x, y) ==
    IF IsNil(x) \/ IsNil(y)
    THEN Ret(nilElemDiff(x, y))
    ELSE IF Kind(x.typ) = "ptr"
         THEN IF haveSeen({Pointer(x), Pointer(y)})
              THEN Ret(<< >>)
              ELSE Out(<< >>, << >>, {Pointer(x), Pointer(y)}, "call")
         ELSE Out(<< >>, << >>, {}, "call")

\* a method value taken through an unexported field held callable all the same
canInterfaceAlways(ro) == TRUE

\* Value.CanInterface of a method value: false when its receiver was reached
\* through an unexported struct field
canInterface(ro) == ~ro

\* the receivers of aFunc and bFunc, the two Truncate methods equals looks
\* up, each with its CanInterface flag
truncateReceivers(f) ==
    << [v |-> f.a, ro |-> f.aro], [v |-> f.a, ro |-> f.aro] >>

\* the result of Equal required to be of type bool, not of kind bool
equalAppliesBoolType(x, xro) ==
    /\ TypeTab[x.typ].eq # << >>
    /\ canInterface(xro)
    /\ Len(TypeTab[x.typ].eq[1].in) = 1
    /\ TypeTab[x.typ].eq[1].in[1] = x.typ
    /\ Len(TypeTab[x.typ].eq[1].out) = 1
    /\ TypeTab[x.typ].eq[1].out[1] = "bool"

\* For types with an Equal method: valid, callable, one argument of the
\* compared type and one result of kind bool
equalApplies(x, xro) ==
    /\ TypeTab[x.typ].eq # << >>
    /\ canInterface(xro)
    /\ Len(TypeTab[x.typ].eq[1].in) = 1
    /\ TypeTab[x.typ].eq[1].in[1] = x.typ
    /\ Len(TypeTab[x.typ].eq[1].out) = 1
    /\ Kind(TypeTab[x.typ].eq[1].out[1]) = "bool"

\* the Error methods compared only for values that are not indirections
errorAppliesDirect(f) ==
    /\ Implements(f.a.typ)
    /\ Kind(f.a.typ) \notin {"ptr", "interface"}
    /\ canInterface(f.aro) /\ canInterface(f.bro)

\* the Error methods are compared: the type implements error, the values
\* are not nil indirections, and both methods can be called
errorApplies(f) ==
    /\ Implements(f.a.typ)
    /\ \/ Kind(f.a.typ) \notin {"ptr", "interface"}
       \/ (~IsNil(f.a) /\ ~IsNil(f.b))
    /\ canInterface(f.aro) /\ canInterface(f.bro)

\* the working values a and b after the TimePrecision block, with their
\* CanInterface flags
working(f, recv) ==
    IF /\ TimePrecision > 0
       /\ f.a.typ \in {"time.Time", "time.Duration"}
       /\ canInterface(recv[1].ro) /\ canInterface(recv[2].ro)
    THEN [x |-> Truncate(recv[1].v, TimePrecision), xro |-> FALSE,
          y |-> Truncate(recv[2].v, TimePrecision), yro |-> FALSE]
    ELSE [x |-> f.a, xro |-> f.aro, y |-> f.b, yro |-> f.bro]

\* equals from the Equal method on
equalsWorking(f, w) ==
    IF equalApplies(w.x, w.xro)
    THEN IF ~CallEqual(w.x, w.y)
         THEN Ret(saveDiff(buff, Render(w.x, w.xro, 0), Render(w.y, w.yro, 0)))
         ELSE Ret(<< >>)
    ELSE IF Kind(f.a.typ) \in {"ptr", "interface"} THEN equalsElem(f, w.x, w.y)
    ELSE equalsKind(f, w.x, w.y, w.xro, w.yro)

\* the two errors compared as values, not by their strings
errorDiffByValue(x, y) ==
    IF x # y THEN saveDiff(buff, ErrorString(x), ErrorString(y)) ELSE << >>

\* aString != bString of the two Error() results
errorDiff(x, y) ==
    IF ErrorString(x) # ErrorString(y)
    THEN saveDiff(buff, ErrorString(x), ErrorString(y))
    ELSE << >>

\* equals after the type check
equalsTyped(f) ==
    IF errorApplies(f)
    THEN Ret(errorDiff(f.a, f.b))
    ELSE equalsWorking(f, working(f, truncateReceivers(f)))

\* equals from its entry to its first loop, recursion or return
equals(f) ==
    IF maxDiffReached THEN Ret(<< >>)
    ELSE IF tooDeep(f.level)
    THEN Out(<< >>, << ErrMaxRecursion >>, {}, "ret")
    ELSE IF ~IsValid(f.a) \/ ~IsValid(f.b)
    THEN Ret(IF IsValid(f.a) THEN saveDiff(buff, TypeString(f.a.typ), "<invalid value>")
             ELSE IF IsValid(f.b) THEN saveDiff(buff, "<invalid value>", TypeString(f.b.typ))
             ELSE << >>)
    ELSE IF f.a.typ # f.b.typ
    THEN Out(typeDiff(f.a.typ, f.b.typ), << ErrTypeMismatch >>, {}, "ret")
    ELSE equalsTyped(f)

(***************************************************************************)
(* Actions.                                                                *)
(***************************************************************************)
logError(errs) == IF LogErrors THEN logged \o errs ELSE logged

\* The orders in which the next range over the keys of map v may deliver
\* them: any order, or, in a call repeated under the iteration order of the
\* call before, the order the same range had there.
Orders(v) ==
    IF prev # << >> /\ Len(ranged) < Len(prev[1].ranged)
    THEN { prev[1].ranged[Len(ranged) + 1] }
    ELSE KeyOrders(v)

\* The top frame becomes f2; with call = << child >>, equals is called on
\* the child frame.  A call that does not fit the stack is the runtime's
\* fatal stack overflow.
Go(f2, call) ==
    IF call = << >>
    THEN /\ stack' = [stack EXCEPT ![Len(stack)] = f2]
         /\ pc' = pc
    ELSE IF Len(stack) >= StackLimit
    THEN /\ stack' = stack
         /\ pc' = "overflow"
    ELSE /\ stack' = Append([stack EXCEPT ![Len(stack)] = f2], call[1])
         /\ pc' = pc

\* the sentinel put on the side of the value that is not nil
untypedNilDiffSwapped(x, y) ==
    IF IsValid(y) THEN saveDiff(<< >>, Render(y, FALSE, 0), "<untyped nil>")
    ELSE IF IsValid(x) THEN saveDiff(<< >>, "<untyped nil>", Render(x, FALSE, 0))
    ELSE << >>

\* the diff of Equal when a or b is an untyped nil
untypedNilDiff(x, y) ==
    IF IsValid(y) THEN saveDiff(<< >>, "<untyped nil>", Render(y, FALSE, 0))
    ELSE IF IsValid(x) THEN saveDiff(<< >>, Render(x, FALSE, 0), "<untyped nil>")
    ELSE << >>

\* func Equal(a, b interface{}) []string
Equal ==
    /\ pc = "idle"
    /\ floatFormat' = FloatPrecision
    /\ seen' = {}
    /\ buff' = << >>
    /\ IF ~IsValid(a) \/ ~IsValid(b)
       THEN /\ diff' = untypedNilDiff(a, b)
            /\ stack' = << >>
            /\ pc' = "done"
       ELSE /\ diff' = << >>
            /\ stack' = << Frame(a, b, FALSE, FALSE, 0, << >>) >>
            /\ pc' = "running"
    /\ atEntry' = config
    /\ ranged' = << >>
    /\ UNCHANGED << a, b, config, logged, prev, callback >>

\* the outcome o of equals' first part takes effect on frame f
Apply(f, o) ==
    /\ diff' = diff \o o.emit
    /\ logged' = logError(o.log)
    /\ seen' = seen \cup o.saw
    /\ IF o.next = "call"
       THEN Go([f EXCEPT !.at = "ret"],
               << Frame(Elem(f.a), Elem(f.b), f.aro, f.bro, f.level + 1, buff) >>)
       ELSE IF o.next = "mapA"
       THEN \E ks \in Orders(f.a) :
               Go([f EXCEPT !.at = "mapA", !.keys = ks], << >>)
       ELSE Go([f EXCEPT !.at = o.next], << >>)

\* equals, from its entry to its first loop, recursion or return
Enter ==
    /\ pc = "running"
    /\ Top.at = "entry"
    /\ Apply(Top, equals(Top))
    /\ ranged' = IF stack'[Len(stack)].at = "mapA"
                 THEN Append(ranged, stack'[Len(stack)].keys) ELSE ranged
    /\ UNCHANGED << a, b, config, buff, floatFormat, prev, atEntry, callback >>

\* the return of a call of equals
Return ==
    /\ pc = "running"
    /\ Top.at = "ret"
    /\ stack' = SubSeq(stack, 1, Len(stack) - 1)
    /\ pc' = IF Len(stack) = 1 THEN "done" ELSE "running"
    /\ UNCHANGED << a, b, config, diff, buff, seen, floatFormat, logged, prev, atEntry, ranged, callback >>

\* c.push(name); c.equals(x, y, level+1), to be followed by c.pop()
Recurse(f, name, x, y, xro, yro, popAt) ==
    /\ buff' = Append(buff, name)
    /\ diff' = diff
    /\ Go([f EXCEPT !.at = popAt],
          << Frame(x, y, xro, yro, f.level + 1, Append(buff, name)) >>)

\* one step of a loop that calls nothing: the frame goes on as f2
Step(f2, emit) ==
    /\ diff' = diff \o emit
    /\ buff' = buff
    /\ Go(f2, << >>)

\* a pop that leaves the path as it is
popNothing(path) == path

pop(path) == IF Len(path) > 0 THEN SubSeq(path, 1, Len(path) - 1) ELSE path

\* unexported fields skipped whatever CompareUnexportedFields says
skipUnexportedAlways(fld) == fld.pkgPath # ""

\* skip unexported field, e.g. s in type T struct {s string}
skipUnexported(fld) == fld.pkgPath # "" /\ ~CompareUnexportedFields

\* the tag honoured on exported fields only
ignoredExportedOnly(fld) == fld.tag = "-" /\ fld.pkgPath = ""

\* field wants to be ignored
ignored(fld) == fld.tag = "-"

\* case reflect.Struct: one turn of the loop over the fields
StructLoop ==
    /\ pc = "running"
    /\ Top.at = "struct"
    /\ LET f   == Top
           fld == Field(f.a.typ, f.i)
       IN  IF f.i >= NumField(f.a) THEN Step([f EXCEPT !.at = "ret"], << >>)
           ELSE IF maxDiffReached THEN Step([f EXCEPT !.at = "ret"], << >>)
           ELSE IF skipUnexported(fld)
           THEN Step([f EXCEPT !.i = f.i + 1], << >>)
           ELSE IF ignored(fld)
           THEN Step([f EXCEPT !.i = f.i + 1], << >>)
           ELSE Recurse(f, fld.name, f.a.kids[f.i + 1], f.b.kids[f.i + 1],
                        f.aro \/ fld.pkgPath # "", f.bro \/ fld.pkgPath # "", "pop:struct")
    /\ UNCHANGED << a, b, config, seen, floatFormat, logged, prev, atEntry, ranged, callback >>

mapPrefix(key) == "map[" \o key \o "]"

\* every key of a taken for a key of b
hasKeyAlways(m, key) == TRUE

\* bVal := b.MapIndex(key); bVal.IsValid()
hasKey(m, key) == IsValid(MapIndex(m, key))

\* case reflect.Map: one turn of the loop over a's keys
MapLoopA ==
    /\ pc = "running"
    /\ Top.at = "mapA"
    /\ LET f   == Top
           key == f.keys[f.i + 1]
       IN  IF f.i >= Len(f.keys)
           THEN /\ \E ks \in Orders(f.b) :
                      Go([f EXCEPT !.at = "mapB", !.i = 0, !.keys = ks], << >>)
                /\ UNCHANGED << diff, buff >>
           ELSE IF maxDiffReached THEN Step([f EXCEPT !.at = "ret"], << >>)
           ELSE IF ~hasKey(f.b, key)
           THEN Step([f EXCEPT !.i = f.i + 1],
                     prefixDiff(buff, mapPrefix(key),
                                Render(MapIndex(f.a, key), f.aro, 0), "<does not have key>"))
           ELSE Recurse(f, mapPrefix(key), MapIndex(f.a, key), MapIndex(f.b, key),
                        f.aro, f.bro, "pop:mapA")
    /\ ranged' = IF Top.i >= Len(Top.keys)
                 THEN Append(ranged, stack'[Len(stack)].keys) ELSE ranged
    /\ UNCHANGED << a, b, config, seen, floatFormat, logged, prev, atEntry, callback >>

\* the sentinel put in the place of b's value
missingInASwapped(f, key) ==
    prefixDiff(buff, mapPrefix(key),
               Render(MapIndex(f.b, key), f.bro, 0), "<does not have key>")

\* c.prefixDiff(prefix(key), "<does not have key>", b.MapIndex(key))
missingInA(f, key) ==
    prefixDiff(buff, mapPrefix(key),
               "<does not have key>", Render(MapIndex(f.b, key), f.bro, 0))

\* case reflect.Map: one turn of the loop over b's keys
MapLoopB ==
    /\ pc = "running"
    /\ Top.at = "mapB"
    /\ LET f   == Top
           key == f.keys[f.i + 1]
       IN  IF f.i >= Len(f.keys) THEN Step([f EXCEPT !.at = "ret"], << >>)
           ELSE IF maxDiffReached THEN Step([f EXCEPT !.at = "ret"], << >>)
           ELSE IF IsValid(MapIndex(f.a, key))
           THEN Step([f EXCEPT !.i = f.i + 1], << >>)
           ELSE Step([f EXCEPT !.i = f.i + 1], missingInA(f, key))
    /\ UNCHANGED << a, b, config, seen, floatFormat, logged, prev, atEntry, ranged, callback >>

\* case reflect.Array: one turn of the loop over the elements
ArrayLoop ==
    /\ pc = "running"
    /\ Top.at = "array"
    /\ LET f == Top
       IN  IF f.i >= ValLen(f.a) THEN Step([f EXCEPT !.at = "ret"], << >>)
           ELSE IF maxDiffReached THEN Step([f EXCEPT !.at = "ret"], << >>)
           ELSE Recurse(f, "array[" \o ToString(f.i) \o "]",
                        Index(f.a, f.i), Index(f.b, f.i), f.aro, f.bro, "pop:array")
    /\ UNCHANGED << a, b, config, seen, floatFormat, logged, prev, atEntry, ranged, callback >>

slicePrefix(i) == "slice[" \o ToString(i) \o "]"

Min(m, n) == IF m < n THEN m ELSE n

\* the walk of a slice given up when both slices start at one address
afterCommonReturn(f, bLen) ==
    IF Pointer(f.a) = Pointer(f.b)
    THEN [f EXCEPT !.at = "ret"]
    ELSE [f EXCEPT !.at = "sliceA", !.i = bLen]

\* after the common elements, or in their place when a.Pointer() ==
\* b.Pointer(): on to the loop for i := bLen; i < aLen; i++
afterCommon(f, bLen) == [f EXCEPT !.at = "sliceA", !.i = bLen]

\* case reflect.Slice: one turn of the loop over the common elements
SliceLoop ==
    /\ pc = "running"
    /\ Top.at = "slice"
    /\ LET f    == Top
           aLen == ValLen(f.a)
           bLen == ValLen(f.b)
       IN  IF Pointer(f.a) = Pointer(f.b) \/ f.i >= Min(aLen, bLen)
           THEN Step(afterCommon(f, bLen), << >>)
           ELSE IF maxDiffReached THEN Step([f EXCEPT !.at = "ret"], << >>)
           ELSE Recurse(f, slicePrefix(f.i), Index(f.a, f.i), Index(f.b, f.i),
                        f.aro, f.bro, "pop:slice")
    /\ UNCHANGED << a, b, config, seen, floatFormat, logged, prev, atEntry, ranged, callback >>

\* case reflect.Slice: one turn of the loop over a's surplus elements
SliceRestA ==
    /\ pc = "running"
    /\ Top.at = "sliceA"
    /\ LET f == Top
       IN  IF f.i >= ValLen(f.a)
           THEN Step([f EXCEPT !.at = "sliceB", !.i = ValLen(f.a)], << >>)
           ELSE IF maxDiffReached THEN Step([f EXCEPT !.at = "ret"], << >>)
           ELSE Step([f EXCEPT !.i = f.i + 1],
                     prefixDiff(buff, slicePrefix(f.i),
                                Render(Index(f.a, f.i), f.aro, 0), "<no value>"))
    /\ UNCHANGED << a, b, config, seen, floatFormat, logged, prev, atEntry, ranged, callback >>

\* case reflect.Slice: one turn of the loop over b's surplus elements
SliceRestB ==
    /\ pc = "running"
    /\ Top.at = "sliceB"
    /\ LET f == Top
       IN  IF f.i >= ValLen(f.b) THEN Step([f EXCEPT !.at = "ret"], << >>)
           ELSE IF maxDiffReached THEN Step([f EXCEPT !.at = "ret"], << >>)
           ELSE Step([f EXCEPT !.i = f.i + 1],
                     prefixDiff(buff, slicePrefix(f.i),
                                "<no value>", Render(Index(f.b, f.i), f.bro, 0)))
    /\ UNCHANGED << a, b, config, seen, floatFormat, logged, prev, atEntry, ranged, callback >>

\* c.pop() after the recursive call of a loop, and the loop's i++
LoopNext ==
    /\ pc = "running"
    /\ Top.at \in {"pop:struct", "pop:mapA", "pop:array", "pop:slice"}
    /\ LET f == Top
       IN  /\ buff' = pop(buff)
           /\ stack' = [stack EXCEPT ![Len(stack)] =
                  [f EXCEPT !.i = f.i + 1,
                            !.at = CASE f.at = "pop:struct" -> "struct"
                                     [] f.at = "pop:mapA"   -> "mapA"
                                     [] f.at = "pop:array"  -> "array"
                                     [] f.at = "pop:slice"  -> "slice"]]
    /\ UNCHANGED << a, b, config, diff, seen, floatFormat, pc, logged, prev, atEntry, ranged, callback >>

(***************************************************************************)
(* The inputs.  Equal is called on two values of one family, under every   *)
(* MaxDiff and MaxDepth of the bounds and every setting of the options the *)
(* family's kinds consult (the others stay at their defaults).             *)
(***************************************************************************)
sV(id, name, number) == StructV("deep_test.s", << IntV(id), StrV(name), IntV(number) >>)

tg1V(ns) == StructV("deep_test.tg1", Ints(ns))

tg2V(inline, inlineIgnored, leaf) ==
    StructV("deep_test.tg2", << tg1V(inline), tg1V(inlineIgnored), IntV(leaf) >>)

ptrT(addr) == RefV("*deep_test.T", addr)

ppV(x, y) == StructV("deep_test.pp", << ptrT(x), ptrT(y) >>)

errV(addr) == RefV("*errors.errorString", addr)

primV(msg) == [V("deep_test.primKindError") EXCEPT !.str = msg]

Fam(vals) ==
    [vals |-> vals, cuf |-> {FALSE}, cf |-> {FALSE}, nse |-> {FALSE}, nme |-> {FALSE},
     tp |-> {0}, fp |-> {10}, log |-> {FALSE}]

Families ==
    { [Fam({ sV(1, "foo", 2), sV(1, "bar", 2), sV(1, "bar", 22), sV(11, "foo", 2),
             sV(11, "bar", 22) })
         EXCEPT !.cuf = BOOLEAN],
      [Fam({ tg1V(<< 1, 1, 1, 1 >>), tg1V(<< 1, 2, 1, 1 >>), tg1V(<< 1, 1, 1, 2 >>),
             tg1V(<< 2, 1, 1, 1 >>), tg1V(<< 1, 1, 2, 1 >>) })
         EXCEPT !.cuf = BOOLEAN],
      [Fam({ tg2V(<< 1, 1, 1, 1 >>, << 1, 1, 1, 1 >>, 0),
             tg2V(<< 1, 1, 1, 1 >>, << 2, 1, 2, 1 >>, 0),
             tg2V(<< 1, 2, 1, 2 >>, << 1, 1, 1, 1 >>, 0),
             tg2V(<< 2, 1, 1, 1 >>, << 1, 1, 1, 1 >>, 0),
             tg2V(<< 1, 1, 2, 1 >>, << 1, 2, 1, 1 >>, 0),
             tg2V(<< 1, 1, 1, 1 >>, << 1, 1, 1, 1 >>, 5) })
         EXCEPT !.cuf = BOOLEAN],
      [Fam({ ptrT(""), ptrT("t1"), ptrT("t1b"), ptrT("t2") }) EXCEPT !.cuf = BOOLEAN],
      [Fam({ ppV("t1", "t1"), ppV("t1b", "t2"), ppV("t1b", "t1b"), ppV("t2", "t2"),
             ppV("", "t1") })
         EXCEPT !.cuf = BOOLEAN],
      Fam({ RefV("*deep_test.ring", "rA"), RefV("*deep_test.ring", "rB"),
            RefV("*deep_test.ring", "rC"), RefV("*deep_test.ring", "rE") }),
      Fam({ RefV("*deep_test.oroborous", "oA"), RefV("*deep_test.oroborous", "oB") }),
      Fam({ RefV("map[string]interface {}", "mA"), RefV("map[string]interface {}", "mB") }),
      Fam({ SliceV("[]interface {}", "lA", 0, 1), SliceV("[]interface {}", "lB", 0, 1) }),
      [Fam({ RefV("map[string]int", ""), RefV("map[string]int", "m1"),
             RefV("map[string]int", "m2"), RefV("map[string]int", "m3"),
             RefV("map[string]int", "m4"), RefV("map[string]int", "m5") })
         EXCEPT !.nme = BOOLEAN],
      [Fam({ SliceV("[]int", "", 0, 0), SliceV("[]int", "ar1", 0, 3),
             SliceV("[]int", "ar1", 0, 2), SliceV("[]int", "ar1", 1, 2),
             SliceV("[]int", "ar2", 0, 3), SliceV("[]int", "ar3", 0, 0),
             SliceV("[]int", "ar1", 0, 0) })
         EXCEPT !.nse = BOOLEAN],
      Fam({ ArrayV("[3]int", Ints(<< 1, 2, 3 >>)), ArrayV("[3]int", Ints(<< 1, 2, 333 >>)),
            ArrayV("[3]int", Ints(<< 0, 0, 0 >>)) }),
      [Fam({ TimeV(1, 0), TimeV(1, 123), TimeV(1, 1500), TimeV(2, 0) })
         EXCEPT !.tp = {0, 1000}],
      [Fam({ NamedV("time.Duration", 1000), NamedV("time.Duration", 1123),
             NamedV("time.Duration", 2000) })
         EXCEPT !.tp = {0, 1000}],
      [Fam({ StructV("deep_test.sTime", << TimeV(1, 0), NamedV("time.Duration", 1000) >>),
             StructV("deep_test.sTime", << TimeV(1, 123), NamedV("time.Duration", 1123) >>),
             StructV("deep_test.sTime", << TimeV(2, 0), NamedV("time.Duration", 2000) >>) })
         EXCEPT !.tp = {0, 1000}],
      [Fam({ StructV("deep_test.hiddenTime", << TimeV(1, 0), NamedV("time.Duration", 1000) >>),
             StructV("deep_test.hiddenTime", << TimeV(1, 123), NamedV("time.Duration", 1123) >>),
             StructV("deep_test.hiddenTime", << TimeV(2, 0), NamedV("time.Duration", 2000) >>) })
         EXCEPT !.tp = {0, 1000}, !.cuf = BOOLEAN],
      [Fam({ FloatV(11234561), FloatV(11234562), FloatV(11234570), FloatV(0),
             [FloatV(0) EXCEPT !.str = "-0"], NaNV,
             [FloatV(0) EXCEPT !.str = "+Inf"], [FloatV(0) EXCEPT !.str = "-Inf"] })
         EXCEPT !.fp = {0, 6, 10}],
      [Fam({ RefV("func()", ""), RefV("func()", "f1"), RefV("func()", "f2") })
         EXCEPT !.cf = BOOLEAN],
      [Fam({ RefV("chan int", "c1"), RefV("chan int", "c2") }) EXCEPT !.log = BOOLEAN],
      [Fam({ RefV("map[string]*deep_test.T", "pm1"), RefV("map[string]*deep_test.T", "pm2") })
         EXCEPT !.cuf = BOOLEAN],
      [Fam({ RefV("map[string]deep_test.s3", "d1"), RefV("map[string]deep_test.s3", "d2") })
         EXCEPT !.log = BOOLEAN],
      Fam({ errV(""), errV("e1"), errV("e1b"), errV("e2") }),
      Fam({ [V("deep_test.primKindError") EXCEPT !.str = "abc"],
            [V("deep_test.primKindError") EXCEPT !.str = "abd"] }),
      [Fam({ StructV("deep_test.tWithError", << V("error") >>),
             StructV("deep_test.tWithError", << IfaceV("error", errV("e1")) >>),
             StructV("deep_test.tWithError", << IfaceV("error", errV("e1b")) >>),
             StructV("deep_test.tWithError", << IfaceV("error", errV("e2")) >>),
             StructV("deep_test.tWithError", << IfaceV("error", primV("it broke")) >>),
             StructV("deep_test.tWithError", << IfaceV("error", primV("abc")) >>) })
         EXCEPT !.cuf = BOOLEAN],
      [Fam({ StructV("deep_test.hiddenErr", << IfaceV("error", errV("e1")) >>),
             StructV("deep_test.hiddenErr", << IfaceV("error", errV("e1b")) >>),
             StructV("deep_test.hiddenErr", << IfaceV("error", errV("e2")) >>) })
         EXCEPT !.cuf = BOOLEAN],
      Fam({ StructV("deep_test.Time15", << TimeV(1, 0) >>),
            StructV("deep_test.Time15", << TimeV(2, 0) >>) }),
      Fam({ NamedV("deep_test.equalReturnsNothing", 13),
            NamedV("deep_test.equalReturnsNothing", 42) }),
      Fam({ NamedV("deep_test.equalReturnsWrongType", 13),
            NamedV("deep_test.equalReturnsWrongType", 42) }),
      Fam({ NamedV("deep_test.equalReturnsBoolKind", 13),
            NamedV("deep_test.equalReturnsBoolKind", 42) }),
      Fam({ StructV("test/v1.Error", << >>), StructV("test/v2.Error", << >>) }),
      [Fam({ SliceV("[]interface {}", "li1", 0, 2), SliceV("[]interface {}", "li2", 0, 2) })
         EXCEPT !.log = BOOLEAN],
      [Fam({ RefV("map[string]interface {}", "mi1"), RefV("map[string]interface {}", "mi2") })
         EXCEPT !.log = BOOLEAN],
      [Fam({ StructV("deep_test.withChan", << RefV("chan int", "c1"), IntV(1) >>),
             StructV("deep_test.withChan", << RefV("chan int", "c2"), IntV(2) >>) })
         EXCEPT !.log = BOOLEAN],
      \* values of different types, and the untyped nil
      [Fam({ UntypedNil, IntV(1), StrV("foo"), NamedV("deep_test.T1", 1),
             NamedV("deep_test.T2", 2), ArrayV("[3]int", Ints(<< 1, 2, 3 >>)),
             ArrayV("[2]int", Ints(<< 0, 0 >>)), ptrT("t1"), sV(1, "mark", 10),
             FloatV(1000000000) })
         EXCEPT !.log = BOOLEAN] }

Init ==
    /\ \E fam \in Families :
          /\ a \in fam.vals
          /\ b \in fam.vals
          /\ CompareUnexportedFields \in fam.cuf
          /\ CompareFunctions \in fam.cf
          /\ NilSlicesAreEmpty \in fam.nse
          /\ NilMapsAreEmpty \in fam.nme
          /\ TimePrecision \in fam.tp
          /\ FloatPrecision \in fam.fp
          /\ LogErrors \in fam.log
    /\ MaxDiff \in 1..MaxDiffBound
    /\ MaxDepth \in 0..MaxDepthBound
    /\ diff = << >>
    /\ buff = << >>
    /\ seen = {}
    /\ floatFormat = 0
    /\ stack = << >>
    /\ pc = "idle"
    /\ logged = << >>
    /\ prev = << >>
    /\ atEntry = config
    /\ ranged = << >>
    /\ callback = "nil"

\* A caller that has the result of Equal(a, b) calls Equal(b, a).
Swap ==
    /\ pc = "done"
    /\ prev = << >>
    /\ prev' = << [a |-> a, b |-> b, diff |-> diff, cap |-> MaxDiff, ranged |-> << >>] >>
    /\ a' = b
    /\ b' = a
    /\ pc' = "idle"
    /\ UNCHANGED << config, diff, buff, seen, floatFormat, stack, logged, atEntry, ranged, callback >>

Next ==
    \/ Equal
    \/ Enter
    \/ Return
    \/ StructLoop
    \/ MapLoopA
    \/ MapLoopB
    \/ ArrayLoop
    \/ SliceLoop
    \/ SliceRestA
    \/ SliceRestB
    \/ LoopNext

Spec == Init /\ [][Next]_vars

\* the configuration with variable i set to v
Changed(i, v) == [j \in 1..9 |-> IF j = i THEN v ELSE config[j]]

\* the configurations another goroutine can leave behind by one assignment
\* to one of the package variables
Assignments ==
         { Changed(1, v) : v \in (1..MaxDiffBound) \ {MaxDiff} }
    \cup { Changed(2, v) : v \in (0..MaxDepthBound) \ {MaxDepth} }
    \cup { Changed(4, ~CompareUnexportedFields), Changed(5, ~CompareFunctions),
           Changed(6, ~NilSlicesAreEmpty), Changed(7, ~NilMapsAreEmpty) }
    \cup { Changed(8, v) : v \in {0, 1000} \ {TimePrecision} }
    \cup { Changed(9, v) : v \in {0, 6, 10} \ {FloatPrecision} }

\* Another goroutine assigns to a package variable while Equal is running
\* (once per call of Equal).
SetConfig ==
    /\ pc = "running"
    /\ config = atEntry
    /\ \E c \in Assignments :
          /\ MaxDiff' = c[1]
          /\ MaxDepth' = c[2]
          /\ LogErrors' = c[3]
          /\ CompareUnexportedFields' = c[4]
          /\ CompareFunctions' = c[5]
          /\ NilSlicesAreEmpty' = c[6]
          /\ NilMapsAreEmpty' = c[7]
          /\ TimePrecision' = c[8]
          /\ FloatPrecision' = c[9]
    /\ UNCHANGED << a, b, diff, buff, seen, floatFormat, stack, pc, logged, prev, atEntry, ranged, callback >>

\* Equal with the package variables assigned to meanwhile
SpecSet == Init /\ [][Next \/ SetConfig]_vars

\* A caller that has the result of Equal(a, b) raises MaxDiff and calls
\* Equal(a, b) again, the maps iterating in the orders they had.
Again ==
    /\ pc = "done"
    /\ prev = << >>
    /\ prev' = << [a |-> a, b |-> b, diff |-> diff, cap |-> MaxDiff, ranged |-> ranged] >>
    /\ \E k \in (MaxDiff + 1)..MaxDiffBound : MaxDiff' = k
    /\ pc' = "idle"
    /\ UNCHANGED << a, b, MaxDepth, LogErrors, CompareUnexportedFields, CompareFunctions,
                    NilSlicesAreEmpty, NilMapsAreEmpty, TimePrecision, FloatPrecision,
                    diff, buff, seen, floatFormat, stack, logged, atEntry, ranged, callback >>

\* Equal(a, b) under two values of MaxDiff
SpecCap == Init /\ [][Next \/ Again]_vars

\* Equal(a, b), then Equal(b, a)
SpecSwap == Init /\ [][Next \/ Swap]_vars

(***************************************************************************)
(* The callback variant of the package, src/unnamed/part_000: Equal and    *)
(* Compare, its equals and its saveDiff.  Compare is called with callback2 *)
(* and callback3 nil; callback is nil, or a function that accepts every    *)
(* diff, or one that rejects every diff.                                   *)
(***************************************************************************)
\* regexp map\[(.*?)] matches the path element
IsMapPrefix(s) == Len(s) >= 5 /\ SubSeq(s, 1, 4) = "map["

\* the submatch: the key of the path element
MapPrefixKey(s) == SubSeq(s, 5, Len(s) - 1)

\* output: the keys of the path elements from element i on, " -> " before
\* every key that is not at the first place of the path
RECURSIVE keyTrail(_, _)
keyTrail(prefixes, i) ==
    IF i > Len(prefixes) THEN ""
    ELSE (IF IsMapPrefix(prefixes[i])
          THEN (IF i # 1 THEN " -> " ELSE "") \o MapPrefixKey(prefixes[i])
          ELSE "")
         \o keyTrail(prefixes, i + 1)

\* saveDiff gets to c.callback2(key), which is nil
callsCallback2(prefixes, aString, bString) ==
    /\ Len(prefixes) > 0
    /\ aString = "<no value>" \/ bString = "<no value>"
    /\ \E i \in 1..Len(prefixes) : IsMapPrefix(prefixes[i])

\* the text saveDiff builds
diffTextCB(prefixes, aString, bString) ==
    IF Len(prefixes) = 0 THEN aString \o " != " \o bString
    ELSE IF aString = "<no value>" \/ bString = "<no value>" THEN ""
    ELSE IF aString = "<does not have key>" \/ bString = "<does not have key>"
    THEN IF aString = "does not have key>"
         THEN Join(prefixes, ".") \o ": New field with data: " \o keyTrail(prefixes, 1)
         ELSE Join(prefixes, ".") \o ": Missing field: " \o keyTrail(prefixes, 1)
    ELSE Join(prefixes, ".") \o ": " \o aString \o " != " \o bString

\* what cmp.saveDiff of the variant appends to c.diff: the text in the branch
\* of the empty path, and the text again unless the callback returns false
saveDiffCB(prefixes, aString, bString) ==
       (IF Len(prefixes) = 0 THEN << diffTextCB(prefixes, aString, bString) >> ELSE << >>)
    \o (IF callback # "reject" THEN << diffTextCB(prefixes, aString, bString) >> ELSE << >>)

\* Value.Elem: the zero Value for a nil pointer or interface
ElemCB(v) == IF IsNil(v) THEN UntypedNil ELSE Elem(v)

\* one side nil: the sentinel against the other side
nilDiffCB(x, y, xro, yro, nilText) ==
    IF IsNil(x) /\ ~IsNil(y) THEN saveDiffCB(buff, nilText, Render(y, yro, 0))
    ELSE IF ~IsNil(x) /\ IsNil(y) THEN saveDiffCB(buff, Render(x, xro, 0), nilText)
    ELSE << >>

\* the kind switch of the variant, as far as it does not loop
equalsKindCB(f) ==
    LET kind == Kind(f.a.typ)
        both == saveDiffCB(buff, Render(f.a, f.aro, 0), Render(f.b, f.bro, 0))
    IN  CASE kind = "struct" ->
              IF /\ TypeTab[f.a.typ].eq # << >>
                 /\ canInterface(f.aro)
                 /\ Len(TypeTab[f.a.typ].eq[1].in) = 1
                 /\ TypeTab[f.a.typ].eq[1].in[1] = f.b.typ
              THEN IF ~CallEqual(f.a, f.b) THEN Ret(both) ELSE Ret(<< >>)
              ELSE Out(<< >>, << >>, {}, "struct")
        [] kind = "map" ->
              IF IsNil(f.a) \/ IsNil(f.b)
              THEN Ret(nilDiffCB(f.a, f.b, f.aro, f.bro, "<nil map>"))
              ELSE IF Pointer(f.a) = Pointer(f.b) THEN Ret(<< >>)
              ELSE Out(<< >>, << >>, {}, "mapA")
        [] kind = "array" -> Out(<< >>, << >>, {}, "array")
        [] kind = "slice" ->
              IF IsNil(f.a) \/ IsNil(f.b)
              THEN Ret(nilDiffCB(f.a, f.b, f.aro, f.bro, "<nil slice>"))
              ELSE IF Pointer(f.a) = Pointer(f.b) THEN Ret(<< >>)
              ELSE Out(<< >>, << >>, {}, "slice")
        [] kind = "float" ->
              IF FormatFloat(floatFormat, f.a) # FormatFloat(floatFormat, f.b)
              THEN Ret(both) ELSE Ret(<< >>)
        [] kind \in {"bool", "int", "uint"} ->
              IF f.a.val # f.b.val THEN Ret(both) ELSE Ret(<< >>)
        [] kind = "string" -> IF f.a.str # f.b.str THEN Ret(both) ELSE Ret(<< >>)
        [] OTHER -> Out(<< >>, << ErrNotHandled >>, {}, "ret")

\* equals of the variant from its entry to its first loop, recursion or
\* return; "panic" where a.Elem() is called on a value that is no pointer
\* and no interface
equalsCB(f) ==
    IF tooDeep(f.level) THEN Out(<< >>, << ErrMaxRecursion >>, {}, "ret")
    ELSE IF ~IsValid(f.a) \/ ~IsValid(f.b)
    THEN Ret(IF IsValid(f.a) THEN saveDiffCB(buff, TypeString(f.a.typ), "<nil pointer>")
             ELSE IF IsValid(f.b) THEN saveDiffCB(buff, "<nil pointer>", TypeString(f.b.typ))
             ELSE << >>)
    ELSE IF f.a.typ # f.b.typ
    THEN Out(saveDiffCB(buff, TypeString(f.a.typ), TypeString(f.b.typ)),
             << ErrTypeMismatch >>, {}, "ret")
    ELSE IF Implements(f.a.typ) /\ Kind(f.a.typ) \notin {"ptr", "interface"}
    THEN Out(<< >>, << >>, {}, "panic")
    ELSE IF Implements(f.a.typ) /\ ~IsNil(f.a) /\ ~IsNil(f.b)
    THEN Ret(IF ErrorString(f.a) # ErrorString(f.b)
             THEN saveDiffCB(buff, ErrorString(f.a), ErrorString(f.b)) ELSE << >>)
    ELSE IF Kind(f.a.typ) \in {"ptr", "interface"} THEN Out(<< >>, << >>, {}, "call")
    ELSE equalsKindCB(f)

\* func Equal and func Compare of the variant
EqualCB ==
    /\ pc = "idle"
    /\ floatFormat' = FloatPrecision
    /\ buff' = << >>
    /\ atEntry' = config
    /\ ranged' = << >>
    /\ IF ~IsValid(a) /\ ~IsValid(b)
       THEN /\ diff' = << >>
            /\ stack' = << >>
            /\ pc' = "done"
       ELSE IF ~IsValid(a)
       THEN /\ diff' = saveDiffCB(<< >>, "<nil pointer>", Render(b, FALSE, 0))
            /\ stack' = << >>
            /\ pc' = "done"
       ELSE IF ~IsValid(b)
       THEN /\ diff' = saveDiffCB(<< >>, Render(a, FALSE, 0), "<nil pointer>")
            /\ stack' = << >>
            /\ pc' = "done"
       ELSE /\ diff' = << >>
            /\ stack' = << Frame(a, b, FALSE, FALSE, 0, << >>) >>
            /\ pc' = "running"
    /\ UNCHANGED << a, b, config, seen, logged, prev, callback >>

\* the outcome o of the first part of the variant's equals takes effect
ApplyCB(f, o) ==
    IF o.next = "panic"
    THEN /\ pc' = "panic"
         /\ UNCHANGED << diff, logged, stack >>
    ELSE /\ diff' = diff \o o.emit
         /\ logged' = logError(o.log)
         /\ IF o.next = "call"
            THEN Go([f EXCEPT !.at = "ret"],
                    << Frame(ElemCB(f.a), ElemCB(f.b), f.aro, f.bro, f.level + 1, buff) >>)
            ELSE IF o.next = "mapA"
            THEN \E ks \in KeyOrders(f.a) :
                    Go([f EXCEPT !.at = "mapA", !.keys = ks], << >>)
            ELSE Go([f EXCEPT !.at = o.next], << >>)

\* equals of the variant, from its entry to its first loop, recursion or
\* return
EnterCB ==
    /\ pc = "running"
    /\ Top.at = "entry"
    /\ ApplyCB(Top, equalsCB(Top))
    /\ UNCHANGED << a, b, config, buff, seen, floatFormat, prev, atEntry, ranged, callback >>

\* the frame after an iteration that appended emit: if len(c.diff) >= MaxDiff
\* the loop ends
afterEmit(f, emit) ==
    IF Len(diff) + Len(emit) >= MaxDiff
    THEN [f EXCEPT !.at = "ret"]
    ELSE [f EXCEPT !.i = f.i + 1]

\* an iteration that calls saveDiff under the path element prefix
EmitCB(f, prefix, aString, bString) ==
    IF callsCallback2(Append(buff, prefix), aString, bString)
    THEN /\ pc' = "panic"
         /\ UNCHANGED << diff, buff, stack >>
    ELSE Step(afterEmit(f, saveDiffCB(Append(buff, prefix), aString, bString)),
              saveDiffCB(Append(buff, prefix), aString, bString))

\* case reflect.Struct of the variant: one turn of the loop over the fields
StructLoopCB ==
    /\ pc = "running"
    /\ Top.at = "struct"
    /\ LET f   == Top
           fld == Field(f.a.typ, f.i)
       IN  IF f.i >= NumField(f.a) THEN Step([f EXCEPT !.at = "ret"], << >>)
           ELSE IF skipUnexported(fld)
           THEN Step([f EXCEPT !.i = f.i + 1], << >>)
           ELSE Recurse(f, fld.name, f.a.kids[f.i + 1], f.b.kids[f.i + 1],
                        f.aro \/ fld.pkgPath # "", f.bro \/ fld.pkgPath # "", "pop:struct")
    /\ UNCHANGED << a, b, config, seen, floatFormat, logged, prev, atEntry, ranged, callback >>

\* case reflect.Map of the variant: one turn of the loop over a's keys
MapLoopACB ==
    /\ pc = "running"
    /\ Top.at = "mapA"
    /\ LET f   == Top
           key == f.keys[f.i + 1]
       IN  IF f.i >= Len(f.keys)
           THEN /\ \E ks \in KeyOrders(f.b) :
                      Go([f EXCEPT !.at = "mapB", !.i = 0, !.keys = ks], << >>)
                /\ UNCHANGED << diff, buff >>
           ELSE IF hasKey(f.b, key)
           THEN Recurse(f, mapPrefix(key), MapIndex(f.a, key), MapIndex(f.b, key),
                        f.aro, f.bro, "pop:mapA")
           ELSE EmitCB(f, mapPrefix(key),
                       Render(MapIndex(f.a, key), f.aro, 0), "<does not have key>")
    /\ UNCHANGED << a, b, config, seen, floatFormat, logged, prev, atEntry, ranged, callback >>

\* case reflect.Map of the variant: one turn of the loop over b's keys
MapLoopBCB ==
    /\ pc = "running"
    /\ Top.at = "mapB"
    /\ LET f   == Top
           key == f.keys[f.i + 1]
       IN  IF f.i >= Len(f.keys) THEN Step([f EXCEPT !.at = "ret"], << >>)
           ELSE IF hasKey(f.a, key) THEN Step([f EXCEPT !.i = f.i + 1], << >>)
           ELSE EmitCB(f, mapPrefix(key),
                       "<does not have key>", Render(MapIndex(f.b, key), f.bro, 0))
    /\ UNCHANGED << a, b, config, seen, floatFormat, logged, prev, atEntry, ranged, callback >>

\* case reflect.Array of the variant: one turn of the loop
ArrayLoopCB ==
    /\ pc = "running"
    /\ Top.at = "array"
    /\ LET f == Top
       IN  IF f.i >= ValLen(f.a) THEN Step([f EXCEPT !.at = "ret"], << >>)
           ELSE Recurse(f, "array[" \o ToString(f.i) \o "]", Index(f.a, f.i), Index(f.b, f.i),
                        f.aro, f.bro, "pop:array")
    /\ UNCHANGED << a, b, config, seen, floatFormat, logged, prev, atEntry, ranged, callback >>

\* case reflect.Slice of the variant, callback2 nil: one turn of the loop up
\* to the greater length
SliceLoopCB ==
    /\ pc = "running"
    /\ Top.at = "slice"
    /\ LET f == Top
       IN  IF f.i >= ValLen(f.a) /\ f.i >= ValLen(f.b)
           THEN Step([f EXCEPT !.at = "ret"], << >>)
           ELSE IF f.i < ValLen(f.a) /\ f.i < ValLen(f.b)
           THEN Recurse(f, slicePrefix(f.i), Index(f.a, f.i), Index(f.b, f.i),
                        f.aro, f.bro, "pop:slice")
           ELSE IF f.i < ValLen(f.a)
           THEN EmitCB(f, slicePrefix(f.i), Render(Index(f.a, f.i), f.aro, 0), "<no value>")
           ELSE EmitCB(f, slicePrefix(f.i), "<no value>", Render(Index(f.b, f.i), f.bro, 0))
    /\ UNCHANGED << a, b, config, seen, floatFormat, logged, prev, atEntry, ranged, callback >>

\* c.pop() after a recursive call, then if len(c.diff) >= MaxDiff the loop
\* ends
LoopNextCB ==
    /\ pc = "running"
    /\ Top.at \in {"pop:struct", "pop:mapA", "pop:array", "pop:slice"}
    /\ LET f == Top
       IN  /\ buff' = pop(buff)
           /\ stack' = [stack EXCEPT ![Len(stack)] =
                  IF Len(diff) >= MaxDiff THEN [f EXCEPT !.at = "ret"]
                  ELSE [f EXCEPT !.i = f.i + 1,
                                 !.at = CASE f.at = "pop:struct" -> "struct"
                                          [] f.at = "pop:mapA"   -> "mapA"
                                          [] f.at = "pop:array"  -> "array"
                                          [] f.at = "pop:slice"  -> "slice"]]
    /\ UNCHANGED << a, b, config, diff, seen, floatFormat, pc, logged, prev, atEntry, ranged,
                    callback >>

\* the inputs of the variant
FamiliesCB ==
    { Fam({ UntypedNil, StrV("foo"), StrV("bar"), IntV(1), IntV(2) }),
      [Fam({ sV(1, "foo", 2), sV(1, "bar", 22), sV(11, "bar", 22) }) EXCEPT !.cuf = BOOLEAN],
      Fam({ RefV("map[string]int", ""), RefV("map[string]int", "m1"),
            RefV("map[string]int", "m2"), RefV("map[string]int", "m3"),
            RefV("map[string]int", "m5") }),
      Fam({ RefV("map[string]map[string]int", "n1"), RefV("map[string]map[string]int", "n2"),
            RefV("map[string]map[string]int", "n3") }),
      Fam({ RefV("map[string][]int", "ms1"), RefV("map[string][]int", "ms2") }),
      Fam({ SliceV("[]int", "", 0, 0), SliceV("[]int", "ar1", 0, 3),
            SliceV("[]int", "ar1", 0, 2), SliceV("[]int", "ar2", 0, 3) }),
      Fam({ ArrayV("[3]int", Ints(<< 1, 2, 3 >>)), ArrayV("[3]int", Ints(<< 1, 2, 333 >>)) }),
      [Fam({ ptrT(""), ptrT("t1"), ptrT("t2") }) EXCEPT !.cuf = {TRUE}],
      Fam({ errV(""), errV("e1"), errV("e2") }),
      Fam({ [V("deep_test.primKindError") EXCEPT !.str = "abc"] }),
      Fam({ TimeV(1, 0), TimeV(2, 0) }),
      Fam({ FloatV(11234561), FloatV(11234562), FloatV(0) }),
      [Fam({ RefV("chan int", "c1"), RefV("chan int", "c2") }) EXCEPT !.log = BOOLEAN] }

InitCB ==
    /\ \E fam \in FamiliesCB :
          /\ a \in fam.vals
          /\ b \in fam.vals
          /\ CompareUnexportedFields \in fam.cuf
          /\ LogErrors \in fam.log
    /\ CompareFunctions = FALSE
    /\ NilSlicesAreEmpty = FALSE
    /\ NilMapsAreEmpty = FALSE
    /\ TimePrecision = 0
    /\ FloatPrecision = 10
    /\ MaxDiff \in 1..MaxDiffBound
    /\ MaxDepth \in 0..MaxDepthBound
    /\ callback \in {"nil", "accept", "reject"}
    /\ diff = << >>
    /\ buff = << >>
    /\ seen = {}
    /\ floatFormat = 0
    /\ stack = << >>
    /\ pc = "idle"
    /\ logged = << >>
    /\ prev = << >>
    /\ atEntry = config
    /\ ranged = << >>

NextCB ==
    \/ EqualCB
    \/ EnterCB
    \/ Return
    \/ StructLoopCB
    \/ MapLoopACB
    \/ MapLoopBCB
    \/ ArrayLoopCB
    \/ SliceLoopCB
    \/ LoopNextCB

\* Equal and Compare of the callback variant
SpecCB == InitCB /\ [][NextCB]_vars

(***************************************************************************)
(* The properties.                                                         *)
(***************************************************************************)

\* C1: whatever the inputs, the diff list never holds more than MaxDiff
\* entries, neither in the result of Equal nor at any moment of the walk.
MaxDiffBounded == Len(diff) <= MaxDiff

\* the cap stops a loop over struct fields that still has fields to compare
MaxDiffCutsLoop ==
    /\ pc = "running"
    /\ Top.at = "struct"
    /\ Top.i < NumField(Top.a)
    /\ Len(diff) = MaxDiff

\* The types built from bools, integers, strings, structs, arrays, slices,
\* maps and pointers only, without tags and without Error, Equal or Truncate.
PlainTypes ==
    { "int", "string", "bool", "deep_test.T1", "deep_test.T2", "deep_test.s",
      "deep_test.T", "*deep_test.T", "deep_test.pp", "deep_test.ring",
      "*deep_test.ring", "map[string]int", "[]int", "[3]int", "[2]int",
      "deep_test.s1", "deep_test.s2", "deep_test.s3", "map[string]deep_test.s3",
      "map[string]*deep_test.T" }

\* Structural equality: same types, same nil-ness, same lengths and keys,
\* equal leaves at every position, pointers compared by what they point to.
\* visited holds the pairs of pointers under comparison (a cycle closes on
\* a pair that is equal unless a difference shows elsewhere).
RECURSIVE StructurallyEqual(_, _, _)
StructurallyEqual(x, y, visited) ==
    IF x.typ # y.typ THEN FALSE
    ELSE IF Kind(x.typ) = "ptr"
    THEN IF IsNil(x) \/ IsNil(y) THEN IsNil(x) = IsNil(y)
         ELSE IF << x.addr, y.addr >> \in visited THEN TRUE
         ELSE StructurallyEqual(Mem[x.addr], Mem[y.addr],
                                visited \cup {<< x.addr, y.addr >>})
    ELSE IF Kind(x.typ) \in {"struct", "array"}
    THEN \A i \in 1..Len(x.kids) : StructurallyEqual(x.kids[i], y.kids[i], visited)
    ELSE IF Kind(x.typ) = "slice"
    THEN /\ IsNil(x) = IsNil(y)
         /\ x.len = y.len
         /\ \A i \in 0..(x.len - 1) : StructurallyEqual(Index(x, i), Index(y, i), visited)
    ELSE IF Kind(x.typ) = "map"
    THEN /\ IsNil(x) = IsNil(y)
         /\ MapKeys(x) = MapKeys(y)
         /\ \A j \in 1..Len(MapKeys(x)) :
                StructurallyEqual(MapIndex(x, MapKeys(x)[j]), MapIndex(y, MapKeys(x)[j]),
                                  visited)
    ELSE x.val = y.val /\ x.str = y.str

\* the configuration and the inputs of the completeness claim
CompletenessCase ==
    /\ MaxDepth = 0
    /\ CompareUnexportedFields
    /\ ~NilSlicesAreEmpty
    /\ ~NilMapsAreEmpty
    /\ a.typ \in PlainTypes
    /\ b.typ \in PlainTypes

\* C2: completeness.  With MaxDepth = 0, unexported fields compared, plain
\* types and fewer diffs than MaxDiff, Equal(a, b) is empty if and only if a
\* and b are structurally equal.
Completeness ==
    (pc = "done" /\ CompletenessCase /\ Len(diff) < MaxDiff)
        => ((diff = << >>) <=> StructurallyEqual(a, b, {}))

\* Equal has compared two structs that share a pointer between their fields
CompletenessSharedPointer ==
    /\ pc = "done"
    /\ CompletenessCase
    /\ a.typ = "deep_test.pp"
    /\ a.kids[1] = a.kids[2]
    /\ ~StructurallyEqual(a, b, {})

\* the addresses of the objects that lie on a cycle: a ring of one node, a
\* ring of two nodes, o.Any = o, m["self"] = m and l[0] = l
CyclicAddrs == { "rA", "rB", "rC", "rD", "oA", "oB", "mA", "mB", "lA", "lB" }

\* a and b are cyclic graphs of one type and of matching shape
CyclicPair ==
    /\ a.typ = b.typ
    /\ a.addr \in CyclicAddrs
    /\ b.addr \in CyclicAddrs

\* C3: cycle termination.  With MaxDepth = 0, Equal on two cyclic graphs of
\* matching shape (through pointers, through an interface holding a pointer,
\* through a map or a slice that contains itself) comes to an end, never
\* exhausting the stack, and returns no diff.
CycleTermination ==
    (MaxDepth = 0 /\ CyclicPair)
        => (pc # "overflow" /\ (pc = "done" => diff = << >>))

\* Equal has come to an end on two distinct rings
CycleTerminationRings ==
    /\ pc = "done"
    /\ MaxDepth = 0
    /\ CyclicPair
    /\ a # b
    /\ a.typ = "*deep_test.ring"

\* Equal has been called on two timestamps or two durations, TimePrecision set
TimePrecisionCase ==
    /\ TimePrecision > 0
    /\ a.typ = b.typ
    /\ a.typ \in {"time.Time", "time.Duration"}

\* C4: time precision.  With TimePrecision = p > 0, two timestamps or two
\* durations are compared as a.Truncate(p) and b.Truncate(p): no diff when
\* the truncated values are equal, one diff when they are different.
TimePrecisionTruncates ==
    (pc = "done" /\ TimePrecisionCase)
        => IF Truncate(a, TimePrecision) = Truncate(b, TimePrecision)
           THEN diff = << >>
           ELSE Len(diff) = 1

\* Equal has compared two values that truncate to different values
TimePrecisionApart ==
    /\ pc = "done"
    /\ TimePrecisionCase
    /\ Truncate(a, TimePrecision) # Truncate(b, TimePrecision)

\* C5: reflexivity.  With CompareFunctions = false, Equal(x, x) comes to an
\* end and returns no diff for every value x: NaN floats, nil pointers, maps
\* and slices, functions and pointer cycles included.
Reflexive ==
    (a = b /\ ~CompareFunctions)
        => (pc # "overflow" /\ (pc = "done" => diff = << >>))

\* Equal(x, x) has returned for a float x that is not a number
ReflexiveNaN ==
    /\ pc = "done"
    /\ a = b
    /\ a.typ = "float64"
    /\ a.str = "NaN"
    /\ ~CompareFunctions

\* the types of the tests that define an Equal method of their own
UserEqualTypes ==
    { "deep_test.equalReturnsNothing", "deep_test.equalReturnsWrongType",
      "deep_test.equalReturnsBoolKind" }

\* C6: symmetry of presence.  Under one configuration and without Equal
\* methods of the user, Equal(b, a) returns as many diffs as Equal(a, b);
\* in particular one is empty if and only if the other is.
SymmetricCount ==
    (pc = "done" /\ prev # << >> /\ a.typ \notin UserEqualTypes
                                  /\ b.typ \notin UserEqualTypes)
        => Len(diff) = Len(prev[1].diff)

\* Equal(a, b) has returned diffs and Equal(b, a) has returned as well
SymmetricCountBothWays ==
    /\ pc = "done"
    /\ prev # << >>
    /\ prev[1].diff # << >>
    /\ a.typ = "map[string]*deep_test.T"

\* equals is entered on two ints that differ, below the cap of MaxDiff
EntersDifferingInts ==
    /\ pc = "running"
    /\ Top.at = "entry"
    /\ Len(diff) < MaxDiff
    /\ Top.a.typ = "int"
    /\ Top.b.typ = "int"
    /\ Top.a.val # Top.b.val

\* a branch entered at a level above MaxDepth > 0 returns without a diff
DepthCutsBranch ==
    (pc = "running" /\ Top.at = "entry" /\ MaxDepth > 0 /\ Top.level > MaxDepth)
        => /\ diff' = diff
           /\ Len(stack') = Len(stack)
           /\ stack'[Len(stack)].at = "ret"

\* the walk emits a diff only at a level up to MaxDepth > 0
DepthOfDiffs ==
    (pc = "running" /\ MaxDepth > 0 /\ diff' # diff) => Top.level <= MaxDepth

\* at a level up to MaxDepth, and at any level with MaxDepth = 0, a
\* disagreement is reported
DepthKeepsLevel ==
    (EntersDifferingInts /\ (MaxDepth = 0 \/ Top.level <= MaxDepth))
        => Len(diff') = Len(diff) + 1

\* C7: MaxDepth.  With MaxDepth = d > 0 a disagreement reached at level L is
\* reported only if L <= d: a branch entered at a level above d returns
\* without a diff and leaves the walk of its siblings to go on, and levels
\* up to d are not cut.  With MaxDepth = 0 no level is cut off.
MaxDepthCuts == [][DepthCutsBranch /\ DepthOfDiffs /\ DepthKeepsLevel]_vars

\* two ints that differ are entered at a level above MaxDepth
MaxDepthBeyond ==
    /\ EntersDifferingInts
    /\ MaxDepth > 0
    /\ Top.level > MaxDepth

\* the fields of type t that carry the tag deep:"-"
TaggedFields(t) == { i \in 1..Len(TypeTab[t].fields) : TypeTab[t].fields[i].tag = "-" }

\* the names of the tagged fields
IgnoredNames ==
    UNION { { TypeTab[t].fields[i].name : i \in TaggedFields(t) } : t \in DOMAIN TypeTab }

\* v without what its tagged fields hold, at any nesting depth
RECURSIVE Strip(_)
Strip(v) ==
    IF v.typ # "" /\ Kind(v.typ) = "struct"
    THEN [v EXCEPT !.kids = [i \in 1..Len(v.kids) |->
                                IF i \in TaggedFields(v.typ) THEN UntypedNil
                                ELSE Strip(v.kids[i])]]
    ELSE v

\* a and b are of one struct type and differ in tagged fields at most
DifferInIgnoredOnly ==
    /\ a.typ = b.typ
    /\ a.typ # ""
    /\ Kind(a.typ) = "struct"
    /\ Strip(a) = Strip(b)

\* C8: ignored fields.  Two values of one struct type whose only differing
\* fields carry the tag deep:"-" (nested or not, exported or not, with
\* CompareUnexportedFields true or false) give no diff, and the name of a
\* tagged field is never pushed on the path.
IgnoredFieldsInvariance ==
    /\ (pc = "done" /\ DifferInIgnoredOnly) => diff = << >>
    /\ \A i \in 1..Len(buff) : buff[i] \notin IgnoredNames

\* Equal has compared two structs that differ in a nested, unexported,
\* tagged field, with unexported fields compared
IgnoredFieldsDiffer ==
    /\ pc = "done"
    /\ DifferInIgnoredOnly
    /\ CompareUnexportedFields
    /\ a.typ = "deep_test.tg2"
    /\ a.kids[1].kids[4] # b.kids[1].kids[4]

\* the text of an int or a string
LeafText(v) == IF v.typ = "string" THEN v.str ELSE ToString(v.val)

\* field i of struct type t takes part in the comparison
FieldCompared(t, i) ==
    /\ TypeTab[t].fields[i].pkgPath = "" \/ CompareUnexportedFields
    /\ i \notin TaggedFields(t)

\* the diffs of two structs of ints and strings, field by field from field
\* i on, in the order of the declaration
RECURSIVE FieldDiffs(_, _, _)
FieldDiffs(x, y, i) ==
    IF i > Len(x.kids) THEN << >>
    ELSE (IF FieldCompared(x.typ, i) /\ x.kids[i] # y.kids[i]
          THEN << TypeTab[x.typ].fields[i].name \o ": " \o LeafText(x.kids[i])
                    \o " != " \o LeafText(y.kids[i]) >>
          ELSE << >>)
         \o FieldDiffs(x, y, i + 1)

\* the first n elements of s, all of them if there are fewer
FirstN(s, n) == SubSeq(s, 1, IF Len(s) < n THEN Len(s) ELSE n)

\* a and b are two structs of one type with fields of ints and strings
FlatStructs ==
    /\ a.typ = b.typ
    /\ a.typ \in {"deep_test.s", "deep_test.tg1"}

\* C9: unexported fields.  With CompareUnexportedFields = false the
\* differences of unexported fields give no diff and the differences of the
\* exported fields are reported in the order of the declaration; with
\* CompareUnexportedFields = true the unexported differences are reported
\* too, each in its place.
UnexportedFields ==
    (pc = "done" /\ FlatStructs) => diff = FirstN(FieldDiffs(a, b, 1), MaxDiff)

\* Equal has compared two structs that differ in an unexported and in two
\* exported fields, unexported fields skipped
UnexportedFieldsSkipped ==
    /\ pc = "done"
    /\ a.typ = "deep_test.s"
    /\ b.typ = "deep_test.s"
    /\ ~CompareUnexportedFields
    /\ MaxDiff >= 2
    /\ \A i \in 1..3 : a.kids[i] # b.kids[i]

\* C10: top-level untyped nil.  If exactly one of a and b is an untyped nil,
\* Equal returns one diff without a path: the rendering of the other side
\* and <untyped nil> in the place of the nil side.  If both are, it returns
\* no diff.  In neither case is equals entered.
UntypedNilTopLevel ==
    (a.typ = "" \/ b.typ = "")
        => /\ stack = << >>
           /\ pc \in {"idle", "done"}
           /\ pc = "done"
                => diff = IF a.typ = "" /\ b.typ = "" THEN << >>
                          ELSE IF a.typ = ""
                          THEN << "<untyped nil> != " \o Render(b, FALSE, 0) >>
                          ELSE << Render(a, FALSE, 0) \o " != <untyped nil>" >>

\* Equal has returned for an untyped nil and a struct
UntypedNilAndStruct ==
    /\ pc = "done"
    /\ a.typ = ""
    /\ b.typ = "deep_test.s"

\* Equal has been called on two distinct, non-nil maps of ints
TwoIntMaps ==
    /\ a.typ = "map[string]int"
    /\ b.typ = "map[string]int"
    /\ a.addr # ""
    /\ b.addr # ""
    /\ a.addr # b.addr

\* the set of the elements of a sequence of strings
Elements(s) == { s[i] : i \in 1..Len(s) }

\* the diffs owed to a's keys: a key of a alone, or a common key whose ints
\* differ
DiffsOfKeysOfA ==
    { "map[" \o k \o "]: " \o ToString(MapIndex(a, k).val) \o " != "
        \o (IF k \in Elements(MapKeys(b))
            THEN ToString(MapIndex(b, k).val) ELSE "<does not have key>") :
      k \in { j \in Elements(MapKeys(a)) :
                j \in Elements(MapKeys(b)) => MapIndex(a, j).val # MapIndex(b, j).val } }

\* the diffs owed to the keys of b alone
DiffsOfKeysOfBOnly ==
    { "map[" \o k \o "]: <does not have key> != " \o ToString(MapIndex(b, k).val) :
      k \in Elements(MapKeys(b)) \ Elements(MapKeys(a)) }

\* C11: map walker.  For two non-nil maps of different identity the result
\* holds, once each and up to MaxDiff, the diffs of a's keys ('map[k]: v !=
\* <does not have key>' for a key of a alone, the diff of the two values
\* under map[k] for a common key) and the diffs 'map[k]: <does not have key>
\* != v' of the keys of b alone, all of the former before any of the latter.
MapWalker ==
    (pc = "done" /\ TwoIntMaps)
        => /\ Elements(diff) \subseteq DiffsOfKeysOfA \cup DiffsOfKeysOfBOnly
           /\ \A i, j \in 1..Len(diff) : diff[i] = diff[j] => i = j
           /\ Len(diff) = Min(Cardinality(DiffsOfKeysOfA \cup DiffsOfKeysOfBOnly), MaxDiff)
           /\ \A i, j \in 1..Len(diff) :
                 (diff[i] \in DiffsOfKeysOfA /\ diff[j] \in DiffsOfKeysOfBOnly) => i < j

\* Equal has returned diffs of both loops for two maps with no common key
MapWalkerBothLoops ==
    /\ pc = "done"
    /\ TwoIntMaps
    /\ Elements(diff) \cap DiffsOfKeysOfA # {}
    /\ Elements(diff) \cap DiffsOfKeysOfBOnly # {}

\* Equal has been called on two non-nil slices of ints
TwoIntSlices ==
    /\ a.typ = "[]int"
    /\ b.typ = "[]int"
    /\ a.addr # ""
    /\ b.addr # ""

\* the diffs of two slices of ints from position i on, in the order of the
\* positions: the common positions that differ, then the surplus of the
\* longer slice
RECURSIVE SliceDiffs(_, _, _)
SliceDiffs(x, y, i) ==
    IF i >= x.len /\ i >= y.len THEN << >>
    ELSE (IF i >= y.len
          THEN << "slice[" \o ToString(i) \o "]: " \o ToString(Index(x, i).val)
                    \o " != <no value>" >>
          ELSE IF i >= x.len
          THEN << "slice[" \o ToString(i) \o "]: <no value> != "
                    \o ToString(Index(y, i).val) >>
          ELSE IF Index(x, i).val # Index(y, i).val
          THEN << "slice[" \o ToString(i) \o "]: " \o ToString(Index(x, i).val)
                    \o " != " \o ToString(Index(y, i).val) >>
          ELSE << >>)
         \o SliceDiffs(x, y, i + 1)

\* C12: slice walker.  For two non-nil slices the result is, up to MaxDiff
\* and in the order of the positions, the diffs of the common positions
\* under slice[i] and then one diff 'slice[i]: A[i] != <no value>' or
\* 'slice[i]: <no value> != B[i]' for every surplus position; slices that
\* start at one address still have their surplus reported, and two
\* zero-length slices are equal whatever their addresses.
SliceWalker ==
    (pc = "done" /\ TwoIntSlices) => diff = FirstN(SliceDiffs(a, b, 0), MaxDiff)

\* Equal has compared two slices of different lengths that start at one
\* address
SliceWalkerSiblings ==
    /\ pc = "done"
    /\ TwoIntSlices
    /\ Pointer(a) = Pointer(b)
    /\ a.len < b.len
    /\ diff # << >>

\* Equal has been called on two slices or two maps, one of them nil at least
NilContainers ==
    /\ a.typ = b.typ
    /\ a.typ \in {"[]int", "map[string]int"}
    /\ a.addr = "" \/ b.addr = ""

\* the sentinel of the kind of a and b
NilText == IF a.typ = "[]int" THEN "<nil slice>" ELSE "<nil map>"

\* nil counts as empty for the kind of a and b
NilIsEmpty == IF a.typ = "[]int" THEN NilSlicesAreEmpty ELSE NilMapsAreEmpty

\* C13: nil versus empty containers.  When exactly one of two slices (maps)
\* is nil, Equal returns one diff pairing the rendering of the whole non-nil
\* container with <nil slice> (<nil map>) and compares no elements, except
\* that with NilSlicesAreEmpty (NilMapsAreEmpty) = true there is no diff
\* when the non-nil side has length zero; when both are nil there is no diff
\* under either setting.
NilVersusEmpty ==
    NilContainers
        => /\ Len(stack) <= 1
           /\ stack # << >> => Top.at \in {"entry", "ret"}
           /\ pc = "done"
                => diff = IF a.addr = "" /\ b.addr = "" THEN << >>
                          ELSE IF a.addr = ""
                          THEN (IF NilIsEmpty /\ ValLen(b) = 0 THEN << >>
                                ELSE << NilText \o " != " \o Render(b, FALSE, 0) >>)
                          ELSE (IF NilIsEmpty /\ ValLen(a) = 0 THEN << >>
                                ELSE << Render(a, FALSE, 0) \o " != " \o NilText >>)

\* Equal has compared a nil slice with a slice that has elements, nil
\* counting as empty
NilVersusNonEmpty ==
    /\ pc = "done"
    /\ NilContainers
    /\ a.typ = "[]int"
    /\ NilSlicesAreEmpty
    /\ a.addr = ""
    /\ ValLen(b) > 0

\* equals is entered, below the caps of MaxDiff and MaxDepth, on two
\* pointers or two interfaces of one type
EntersIndirection ==
    /\ pc = "running"
    /\ Top.at = "entry"
    /\ Len(diff) < MaxDiff
    /\ MaxDepth = 0 \/ Top.level <= MaxDepth
    /\ Top.a.typ # ""
    /\ Top.a.typ = Top.b.typ
    /\ Kind(Top.a.typ) \in {"ptr", "interface"}

\* the type of what a non-nil interface holds, the type of a pointer itself
DynamicType(v) == IF Kind(v.typ) = "interface" THEN v.kids[1].typ ELSE v.typ

\* the diff of an entry on a nil and a non-nil indirection
NilPointerDiff ==
    IF IsNil(Top.a) /\ IsNil(Top.b) THEN << >>
    ELSE IF IsNil(Top.a)
    THEN << formatDiff(buff, "<nil pointer>", DynamicType(Top.b)) >>
    ELSE << formatDiff(buff, DynamicType(Top.a), "<nil pointer>") >>

\* C14: nil indirection.  For two pointers or two interfaces of one type of
\* which exactly one is nil, one diff pairs the concrete type of the side
\* that is not nil (an interface unwrapped to its dynamic type) with <nil
\* pointer> in the place of the nil side, and what the other side refers to
\* is not walked; if both are nil there is no diff, also for a type that
\* implements error.
NilIndirection ==
    [][(EntersIndirection /\ (IsNil(Top.a) \/ IsNil(Top.b)))
          => /\ diff' = diff \o NilPointerDiff
             /\ Len(stack') = Len(stack)
             /\ stack'[Len(stack)].at = "ret"]_vars

\* equals is entered on a nil error and an error that holds a pointer
NilIndirectionError ==
    /\ EntersIndirection
    /\ Top.a.typ = "error"
    /\ IsNil(Top.a)
    /\ ~IsNil(Top.b)

\* equals is entered, below the caps of MaxDiff and MaxDepth, on two values
\* of one type that implements error, no nil indirection among them, both
\* with their methods callable
EntersErrors ==
    /\ pc = "running"
    /\ Top.at = "entry"
    /\ Len(diff) < MaxDiff
    /\ MaxDepth = 0 \/ Top.level <= MaxDepth
    /\ Top.a.typ # ""
    /\ Top.a.typ = Top.b.typ
    /\ TypeTab[Top.a.typ].implErr
    /\ \/ Kind(Top.a.typ) \notin {"ptr", "interface"}
       \/ ~IsNil(Top.a) /\ ~IsNil(Top.b)
    /\ ~Top.aro
    /\ ~Top.bro

TwoWithEqualMethod ==
    /\ a.typ # ""
    /\ a.typ = b.typ
    /\ TypeTab[a.typ].eq # << >>
    /\ TimePrecision = 0

\* the result for two values with a method Equal: decided by the method for
\* time.Time (the instants) and equalReturnsBoolKind (always true), by the
\* ints for equalReturnsNothing and equalReturnsWrongType, by the embedded
\* time.Time under the path Time for Time15
UserEqualResult ==
    IF a.typ = "deep_test.equalReturnsBoolKind" THEN << >>
    ELSE IF a.typ \in {"deep_test.equalReturnsNothing", "deep_test.equalReturnsWrongType"}
    THEN (IF a.val = b.val THEN << >>
          ELSE << ToString(a.val) \o " != " \o ToString(b.val) >>)
    ELSE IF a.typ = "deep_test.Time15"
    THEN (IF Instant(a.kids[1]) = Instant(b.kids[1]) THEN << >>
          ELSE << "Time: " \o Render(a.kids[1], FALSE, 0) \o " != "
                    \o Render(b.kids[1], FALSE, 0) >>)
    ELSE (IF Instant(a) = Instant(b) THEN << >>
          ELSE << Render(a, FALSE, 0) \o " != " \o Render(b, FALSE, 0) >>)

\* C16: user Equal capability.  A method named Equal is called, and its
\* result decides (one diff on false, none on true, nothing compared
\* below), only when it takes one argument of the compared type and returns
\* one value of bool kind; with another argument type (the Equal of an
\* embedded time.Time), no result or a result that is not a bool, the method
\* is not called and the value is compared structurally.
UserEqualCapability ==
    (pc = "done" /\ TwoWithEqualMethod) => diff = UserEqualResult

\* Equal has returned for two different ints whose Equal returns a named
\* bool
UserEqualBoolKind ==
    /\ pc = "done"
    /\ TwoWithEqualMethod
    /\ a.typ = "deep_test.equalReturnsBoolKind"
    /\ a.val # b.val

\* equals is entered, below the caps of MaxDiff and MaxDepth, on two values
\* of different types
EntersTypeMismatch ==
    /\ pc = "running"
    /\ Top.at = "entry"
    /\ Len(diff) < MaxDiff
    /\ MaxDepth = 0 \/ Top.level <= MaxDepth
    /\ Top.a.typ # ""
    /\ Top.b.typ # ""
    /\ Top.a.typ # Top.b.typ

\* the two types are named and their short names are equal
SameShortNames ==
    /\ TypeTab[Top.a.typ].name # ""
    /\ TypeTab[Top.b.typ].name # ""
    /\ TypeTab[Top.a.typ].name = TypeTab[Top.b.typ].name

\* a type with its package path
Qualified(t) == TypeTab[t].pkg \o "." \o TypeTab[t].name

\* C17: type mismatch.  Two values of different types give one diff at the
\* current path and nothing below them is compared; the diff shows the two
\* types with their package paths when both are named and their short names
\* are equal, and in their default forms otherwise.
TypeMismatch ==
    [][EntersTypeMismatch
          => /\ diff' = diff \o
                  << IF SameShortNames
                     THEN formatDiff(buff, Qualified(Top.a.typ), Qualified(Top.b.typ))
                     ELSE formatDiff(buff, TypeString(Top.a.typ), TypeString(Top.b.typ)) >>
             /\ Len(stack') = Len(stack)
             /\ stack'[Len(stack)].at = "ret"]_vars

\* equals is entered on two structs of the two types named Error
TypeMismatchSameName ==
    /\ EntersTypeMismatch
    /\ SameShortNames

\* a and b are two structs of one type whose fields are all unexported and
\* hold values with an Error, an Equal or a Truncate method
HiddenCapabilities ==
    /\ a.typ = b.typ
    /\ a.typ \in {"deep_test.hiddenTime", "deep_test.hiddenErr"}
    /\ CompareUnexportedFields

\* a value at the given level is compared, not cut off by MaxDepth
Within(level) == MaxDepth = 0 \/ level <= MaxDepth

\* one diff when the two leaves differ
LeafDiff(path, x, y) ==
    IF x # y THEN << path \o ": " \o LeafText(x) \o " != " \o LeafText(y) >> ELSE << >>

\* the structural diffs of two structs with an unexported time.Time t and an
\* unexported time.Duration d: the fields wall and ext of t, then d as an
\* integer
HiddenTimeDiffs(x, y) ==
    (IF Within(2)
     THEN LeafDiff("t.wall", x.kids[1].kids[1], y.kids[1].kids[1])
            \o LeafDiff("t.ext", x.kids[1].kids[2], y.kids[1].kids[2])
     ELSE << >>)
    \o LeafDiff("d", x.kids[2], y.kids[2])

\* the structural diffs of two structs with an unexported non-nil error err:
\* the field s of the two errors.errorString behind the interface and the
\* pointer
HiddenErrDiffs(x, y) ==
    IF Within(4)
    THEN LeafDiff("err.s", Mem[x.kids[1].kids[1].addr].kids[1],
                  Mem[y.kids[1].kids[1].addr].kids[1])
    ELSE << >>

\* C18: capabilities on unexported fields.  With CompareUnexportedFields =
\* true, the values reached through an unexported struct field are compared
\* structurally, without their Error, Equal or Truncate methods: Equal returns
\* the diffs of the fields of the unexported time.Time and of the unexported
\* duration as an integer whatever TimePrecision is, and the diff of the
\* field s of the unexported errors, and the comparison ends normally.
UnexportedCapabilities ==
    (pc # "idle" /\ HiddenCapabilities) =>
       /\ pc \in {"running", "done"}
       /\ pc = "done" =>
            diff = FirstN(IF a.typ = "deep_test.hiddenTime"
                          THEN HiddenTimeDiffs(a, b) ELSE HiddenErrDiffs(a, b),
                          MaxDiff)

\* Equal has returned on two structs whose unexported times and durations
\* are equal up to TimePrecision and not equal
UnexportedCapabilitiesTime ==
    /\ pc = "done"
    /\ HiddenCapabilities
    /\ TimePrecision = 1000
    /\ a.kids[1] = TimeV(1, 0)
    /\ b.kids[1] = TimeV(1, 123)
    /\ diff = << "t.wall: 0 != 123", "d: 1000 != 1123" >>

\* the path is that of the entry of the running call of equals, with the
\* name pushed for the call that has just returned when a c.pop() is next
PathOfTop ==
    IF Top.at \in {"pop:struct", "pop:mapA", "pop:array", "pop:slice"}
    THEN buff # << >> /\ SubSeq(buff, 1, Len(buff) - 1) = Top.entry
    ELSE buff = Top.entry

\* the path stack in every state of the walk
PathBalanced ==
    /\ pc = "running" => PathOfTop
    /\ pc = "done" => buff = << >>

\* a step that emits a diff, through saveDiff or prefixDiff, leaves the path
\* stack as it is
EmissionKeepsPath == diff' # diff => buff' = buff

\* C19: path balance.  At every return from equals, and at every point of
\* equals outside a push/pop pair, the path stack has the length and the
\* contents it had at the entry of that call, on every exit path; emitting a
\* diff does not change the path stack; the path stack is empty when Equal
\* returns.
PathBalance == []PathBalanced /\ [][EmissionKeepsPath]_vars

\* a walker loop below the top level, cut by MaxDiff, is about to return
PathBalanceLoopCut ==
    /\ pc = "running"
    /\ Top.at = "ret"
    /\ Top.a.typ # ""
    /\ Kind(Top.a.typ) = "struct"
    /\ Top.i > 0
    /\ Top.i < NumField(Top.a)
    /\ Len(diff) = MaxDiff
    /\ buff # << >>
    /\ buff = Top.entry

\* the running call of equals is on two channels, a kind without a case
EntersUnhandledKind ==
    /\ MaxDepth = 0 \/ Top.level <= MaxDepth
    /\ Top.a.typ # ""
    /\ Top.a.typ = Top.b.typ
    /\ Kind(Top.a.typ) = "chan"

\* equals is entered, on a field, a map value or an element, with one of the
\* three diagnostics ahead: the level above MaxDepth, two different types,
\* or a kind without a case
Diagnosed ==
    /\ pc = "running"
    /\ Top.at = "entry"
    /\ Len(stack) > 1
    /\ Len(diff) < MaxDiff
    /\ \/ MaxDepth > 0 /\ Top.level > MaxDepth
       \/ Top.a.typ # "" /\ Top.b.typ # "" /\ Top.a.typ # Top.b.typ
       \/ EntersUnhandledKind

\* a diagnosed call returns to its caller: the frames of the callers and the
\* path are as before, at most one diff is added, none for an unhandled kind
DiagnosticReturns ==
    Diagnosed =>
       /\ pc' = "running"
       /\ stack' = [stack EXCEPT ![Len(stack)].at = "ret"]
       /\ buff' = buff
       /\ diff' = diff \/ (Len(diff') = Len(diff) + 1 /\ ~EntersUnhandledKind)

\* the diffs of the two maps of interfaces mi1 and mi2
MixedMapDiffs == { "map[a]: int != string", "map[b]: 5 != 6" }

\* the results of Equal on values with a diagnosed field, value or element
\* and a later sibling that differs
SiblingsReported ==
    pc = "done" =>
       /\ (a.typ = "deep_test.withChan" /\ b.typ = "deep_test.withChan")
            => diff = LeafDiff("N", a.kids[2], b.kids[2])
       /\ (a = SliceV("[]interface {}", "li1", 0, 2) /\ b = SliceV("[]interface {}", "li2", 0, 2))
            => diff = FirstN(IF Within(2)
                             THEN << "slice[0]: int != string", "slice[1]: 5 != 6" >>
                             ELSE << >>, MaxDiff)
       /\ (a = RefV("map[string]interface {}", "mi1") /\ b = RefV("map[string]interface {}", "mi2"))
            => /\ Elements(diff) \subseteq MixedMapDiffs
               /\ Len(diff) = (IF Within(2) THEN Min(2, MaxDiff) ELSE 0)
               /\ Cardinality(Elements(diff)) = Len(diff)
       /\ (a = tg2V(<< 2, 1, 1, 1 >>, << 1, 1, 1, 1 >>, 0)
             /\ b = tg2V(<< 1, 1, 1, 1 >>, << 1, 1, 1, 1 >>, 5))
            => diff = FirstN((IF Within(2) THEN << "Inline.Modified: 2 != 1" >> ELSE << >>)
                               \o << "Leaf: 0 != 5" >>, MaxDiff)

\* C20: diagnostics are never fatal.  A type mismatch, a MaxDepth cut-off or
\* an unhandled kind in one struct field, map value or sequence element ends
\* that call of equals alone: the walk goes on with the following siblings,
\* whose diffs are reported up to MaxDiff, and an unhandled kind adds no diff.
DiagnosticsNotFatal == []SiblingsReported /\ [][DiagnosticReturns]_vars

\* Equal has returned the diff of the field after a channel field, the
\* unhandled kind logged
DiagnosticsNotFatalChan ==
    /\ pc = "done"
    /\ a.typ = "deep_test.withChan"
    /\ a.kids[1] # b.kids[1]
    /\ logged = << ErrNotHandled >>
    /\ diff = << "N: 1 != 2" >>

\* Equal was called on two floats
TwoFloats == a.typ = "float64" /\ b.typ = "float64"

\* two floats are equal up to prec decimal places: exactly equal, or with
\* identical roundings
EqualUpTo(prec, x, y) == FloatEq(x, y) \/ FormatFloat(prec, x) = FormatFloat(prec, y)

\* C21: float precision.  Two floats give no diff when they are exactly
\* equal (+0 and -0 are) or when their roundings to FloatPrecision decimal
\* places are identical, and exactly one diff otherwise; the precision is
\* the value FloatPrecision had when Equal was called, whatever is assigned
\* to it afterwards.
FloatPrecisionAtEntry ==
    (pc = "done" /\ TwoFloats) =>
        diff = IF EqualUpTo(atEntry[9], a, b) THEN << >>
               ELSE << Render(a, FALSE, 0) \o " != " \o Render(b, FALSE, 0) >>

\* Equal(1.1234561, 1.1234562), called with FloatPrecision = 6, has returned
\* no diff after FloatPrecision became 10
FloatPrecisionChanged ==
    /\ pc = "done"
    /\ a = FloatV(11234561)
    /\ b = FloatV(11234562)
    /\ atEntry[9] = 6
    /\ FloatPrecision = 10
    /\ diff = << >>

\* equals is entered on two non-nil pointers of one type without methods
EntersPointerPair ==
    /\ pc = "running"
    /\ Top.at = "entry"
    /\ Len(diff) < MaxDiff
    /\ Within(Top.level)
    /\ Top.a.typ # ""
    /\ Top.a.typ = Top.b.typ
    /\ Kind(Top.a.typ) = "ptr"
    /\ ~TypeTab[Top.a.typ].implErr
    /\ TypeTab[Top.a.typ].eq = << >>
    /\ ~IsNil(Top.a)
    /\ ~IsNil(Top.b)

\* a visited pair has both its addresses recorded, so a pair with an address
\* not recorded has not been visited
PairNotVisited == Pointer(Top.a) \notin seen \/ Pointer(Top.b) \notin seen

\* C22: cycle guard granularity.  The comparison of two non-nil pointers is
\* skipped only if that same pair was visited before in the call of Equal: a
\* pair of which at most one address was seen before is dereferenced and
\* compared.
PairGranularity ==
    [][(EntersPointerPair /\ PairNotVisited)
          => (Len(stack') = Len(stack) + 1 \/ pc' = "overflow")]_vars

\* equals is entered on a pointer seen before, paired with one never seen
PairHalfSeen ==
    /\ EntersPointerPair
    /\ Pointer(Top.a) \in seen
    /\ Pointer(Top.b) \notin seen

\* a and b are two structs, slices or maps of one type with interfaces in
\* their fields, elements or values
HoldsInterfaces ==
    /\ a.typ = b.typ
    /\ a.typ \in {"deep_test.tWithError", "[]interface {}", "map[string]interface {}"}
    /\ Kind(a.typ) \in {"slice", "map"} => (~IsNil(a) /\ ~IsNil(b))

\* the positions that x and y have in common, each with its path and its
\* two values
Positions(x, y) ==
    IF Kind(x.typ) = "struct"
    THEN { [path |-> TypeTab[x.typ].fields[i].name, x |-> x.kids[i], y |-> y.kids[i]] :
             i \in { j \in 1..Len(x.kids) : FieldCompared(x.typ, j) } }
    ELSE IF Kind(x.typ) = "slice"
    THEN { [path |-> "slice[" \o ToString(i) \o "]", x |-> Index(x, i), y |-> Index(y, i)] :
             i \in 0..(Min(ValLen(x), ValLen(y)) - 1) }
    ELSE { [path |-> "map[" \o k \o "]", x |-> MapIndex(x, k), y |-> MapIndex(y, k)] :
             k \in Elements(MapKeys(x)) \cap Elements(MapKeys(y)) }

\* the positions of one interface type that hold non-nil values of different
\* dynamic types
MixedPositions(x, y) ==
    { p \in Positions(x, y) :
        /\ p.x.typ = p.y.typ
        /\ Kind(p.x.typ) = "interface"
        /\ ~IsNil(p.x)
        /\ ~IsNil(p.y)
        /\ Elem(p.x).typ # Elem(p.y).typ }

\* the type-mismatch diff of a position
MismatchText(p) ==
    p.path \o ": " \o TypeString(Elem(p.x).typ) \o " != " \o TypeString(Elem(p.y).typ)

\* the diff of the Error() texts of a position
ErrorText(p) == p.path \o ": " \o ErrorString(p.x) \o " != " \o ErrorString(p.y)

\* Equal has returned, neither cap reached on the way to the dynamic values
InterfacesCompared ==
    /\ pc = "done"
    /\ HoldsInterfaces
    /\ Within(2)
    /\ Len(diff) < MaxDiff

\* C23 as stated: dynamic type mismatch behind interfaces.  Every position
\* of an interface type, error included, that holds non-nil values of
\* different dynamic types gets a type-mismatch diff naming the two types.
DynamicTypeMismatch ==
    InterfacesCompared =>
        \A p \in MixedPositions(a, b) : MismatchText(p) \in Elements(diff)

\* C23 amended: a position of an interface type that does not implement
\* error and holds non-nil values of different dynamic types gets the
\* type-mismatch diff naming the two types; a position declared as error is
\* compared by the Error() texts alone, so it gets no type-mismatch diff, and
\* the diff of the two texts exactly when they differ.
DynamicTypeMismatchButErrors ==
    InterfacesCompared =>
        \A p \in MixedPositions(a, b) :
            IF ~Implements(p.x.typ)
            THEN MismatchText(p) \in Elements(diff)
            ELSE /\ MismatchText(p) \notin Elements(diff)
                 /\ ErrorText(p) \in Elements(diff) <=> ErrorString(p.x) # ErrorString(p.y)

\* Equal has returned no diff for two error fields of different concrete
\* types and one text
DynamicTypeMismatchSameText ==
    /\ InterfacesCompared
    /\ a.typ = "deep_test.tWithError"
    /\ a.kids[1] = IfaceV("error", errV("e1"))
    /\ b.kids[1] = IfaceV("error", primV("it broke"))
    /\ diff = << >>

\* the diffs of two structs of ints and strings from field i on, with
\* CompareUnexportedFields = cuf
RECURSIVE FieldDiffsWith(_, _, _, _)
FieldDiffsWith(cuf, x, y, i) ==
    IF i > Len(x.kids) THEN << >>
    ELSE (IF /\ TypeTab[x.typ].fields[i].pkgPath = "" \/ cuf
             /\ i \notin TaggedFields(x.typ)
             /\ x.kids[i] # y.kids[i]
          THEN LeafDiff(TypeTab[x.typ].fields[i].name, x.kids[i], y.kids[i])
          ELSE << >>)
         \o FieldDiffsWith(cuf, x, y, i + 1)

\* C24: configuration snapshot.  The result of a call of Equal depends only
\* on the configuration at the moment the call starts: on two structs of
\* ints and strings it is the diffs of the fields that the
\* CompareUnexportedFields of that moment selects, up to the MaxDiff of that
\* moment, whatever is assigned to the configuration variables while the
\* call is in progress.
ConfigSnapshot ==
    (pc = "done" /\ FlatStructs)
        => diff = FirstN(FieldDiffsWith(atEntry[4], a, b, 1), atEntry[1])

\* Equal has returned on two structs, a configuration variable assigned to
\* while it ran
ConfigChangedInCall ==
    /\ pc = "done"
    /\ FlatStructs
    /\ config # atEntry

\* C25: prefix property of the cap.  For fixed inputs, fixed other
\* configuration and a fixed map iteration order, Equal(a, b) with
\* MaxDiff = k is the first min(k, n) entries of Equal(a, b) with
\* MaxDiff = k' >= k, n being the length of the latter.
CapPrefix ==
    (pc = "done" /\ prev # << >>) => prev[1].diff = FirstN(diff, prev[1].cap)

\* the second call has returned more diffs of two maps than the first, the
\* first cut within the range over the keys of a
CapPrefixOfMaps ==
    /\ pc = "done"
    /\ prev # << >>
    /\ a.typ # ""
    /\ Kind(a.typ) = "map"
    /\ Len(prev[1].ranged) = 1
    /\ Len(ranged) = 2
    /\ Len(diff) > Len(prev[1].diff)

\* string t occurs in string s
Contains(s, t) == \E i \in 1..(Len(s) - Len(t) + 1) : SubSeq(s, i, i + Len(t) - 1) = t

TopLevelScalars == a.typ \in {"", "string", "int"} /\ b.typ \in {"", "string", "int"}

\* the keys of map m as a set
KeySet(m) == { MapKeys(m)[j] : j \in 1..Len(MapKeys(m)) }

\* the keys at which the maps a and b disagree: the key is missing on one
\* side, or its values differ
DisagreeingKeys == { k \in KeySet(a) \union KeySet(b) : MapIndex(a, k) # MapIndex(b, k) }

\* the points of disagreement the variant gets to report: one for two scalars
\* that differ, one per disagreeing key of two maps as far as MaxDiff allows
PointsReported ==
    IF TopLevelScalars THEN (IF a = b THEN 0 ELSE 1)
    ELSE Min(Cardinality(DisagreeingKeys), MaxDiff)

\* C27: one string per disagreement in the callback variant.  When Equal or
\* Compare of the variant has returned, the result holds exactly one string
\* for every point of disagreement if the callback is nil or returns true,
\* and no string if the callback returns false; it is empty when the values
\* agree.  Stated for two scalars (the empty path) and for two maps of ints
\* (a path of one element).
OneStringPerDisagreement ==
    pc = "done" /\ (TopLevelScalars \/ TwoIntMaps)
        => Len(diff) = IF callback = "reject" THEN 0 ELSE PointsReported

\* Equal("foo", "bar") of the variant has returned the same string twice
TopLevelDiffTwice ==
    /\ pc = "done"
    /\ a = StrV("foo")
    /\ b = StrV("bar")
    /\ callback = "nil"
    /\ diff = << "foo != bar", "foo != bar" >>

\* the string the variant is to report for key k of the maps a and b
KeyReport(k) ==
    IF ~IsValid(MapIndex(a, k)) THEN mapPrefix(k) \o ": New field with data: " \o k
    ELSE IF ~IsValid(MapIndex(b, k)) THEN mapPrefix(k) \o ": Missing field: " \o k
    ELSE mapPrefix(k) \o ": " \o ToString(MapIndex(a, k).val) \o " != "
                      \o ToString(MapIndex(b, k).val)

\* C28: the two directions of a missing map key in the callback variant.
\* When the variant has compared two maps of ints and the callback does not
\* reject, every string of the result is the report of a disagreeing key: a
\* key only in b as "<path>: New field with data: <key>", a key only in a as
\* "<path>: Missing field: <key>"; and every disagreeing key is reported
\* when MaxDiff allows it.
KeyDirections ==
    pc = "done" /\ TwoIntMaps /\ callback # "reject"
        => /\ \A i \in 1..Len(diff) : \E k \in DisagreeingKeys : diff[i] = KeyReport(k)
           /\ Cardinality(DisagreeingKeys) <= MaxDiff
                => \A k \in DisagreeingKeys : \E i \in 1..Len(diff) : diff[i] = KeyReport(k)

\* a key only in b and a key only in a have been reported with the same
\* wording
KeyDirectionsAlike ==
    /\ pc = "done"
    /\ TwoIntMaps
    /\ \E k \in KeySet(b) \ KeySet(a) :
          \E i \in 1..Len(diff) : diff[i] = mapPrefix(k) \o ": Missing field: " \o k
    /\ \E k \in KeySet(a) \ KeySet(b) :
          \E i \in 1..Len(diff) : diff[i] = mapPrefix(k) \o ": Missing field: " \o k
====
